---- MODULE Spec2Model ----
(***************************************************************************)
(* Video catalog service: reconciliation of video.uploaded (registration)  *)
(* and video.transcoded (finalization) events into catalog rows.           *)
(*                                                                         *)
(* Strings that the code only compares and copies are TLA+ strings.  A tag *)
(* is a sequence of one-character strings, because the tag column is       *)
(* encoded and decoded character by character (models/video.go:306-345).   *)
(* CreatedAt / UpdatedAt are not part of the model.                        *)
(***************************************************************************)
EXTENDS Integers, Sequences, FiniteSets, TLC

(***************************************************************************)
(* Bounds of the model.                                                    *)
(***************************************************************************)
MaxSteps == 2
MaxMsgs == 3
MaxDeletes == 2
MaxTicks == 1
MaxFlips == 2
MaxRetries == 8

(***************************************************************************)
(* Go string functions used by the tag column codec, on sequences of       *)
(* one-character strings.                                                  *)
(***************************************************************************)
DQ == "\""

RECURSIVE TrimLeft(_, _)
TrimLeft(s, cutset) ==
  IF s # <<>> /\ Head(s) \in cutset THEN TrimLeft(Tail(s), cutset) ELSE s

RECURSIVE TrimRight(_, _)
TrimRight(s, cutset) ==
  IF s # <<>> /\ s[Len(s)] \in cutset
  THEN TrimRight(SubSeq(s, 1, Len(s) - 1), cutset)
  ELSE s

\* strings.Trim(s, cutset)
Trim(s, cutset) == TrimRight(TrimLeft(s, cutset), cutset)

\* strings.Split(s, sep) for a one-character separator
RECURSIVE SplitAcc(_, _, _)
SplitAcc(s, sep, cur) ==
  IF s = <<>> THEN <<cur>>
  ELSE IF Head(s) = sep THEN <<cur>> \o SplitAcc(Tail(s), sep, <<>>)
  ELSE SplitAcc(Tail(s), sep, Append(cur, Head(s)))

Split(s, sep) == SplitAcc(s, sep, <<>>)

\* strings.Join(items, sep)
RECURSIVE Join(_, _)
Join(items, sep) ==
  IF items = <<>> THEN <<>>
  ELSE IF Len(items) = 1 THEN items[1]
  ELSE items[1] \o <<sep>> \o Join(Tail(items), sep)

\* strings.ReplaceAll(s, `"`, `""`)
RECURSIVE DoubleQuotes(_)
DoubleQuotes(s) ==
  IF s = <<>> THEN <<>>
  ELSE IF Head(s) = DQ THEN <<DQ, DQ>> \o DoubleQuotes(Tail(s))
  ELSE <<Head(s)>> \o DoubleQuotes(Tail(s))

\* strings.ReplaceAll(s, `""`, `"`): leftmost non-overlapping matches
RECURSIVE HalveQuotes(_)
HalveQuotes(s) ==
  IF s = <<>> THEN <<>>
  ELSE IF Len(s) >= 2 /\ s[1] = DQ /\ s[2] = DQ
       THEN <<DQ>> \o HalveQuotes(SubSeq(s, 3, Len(s)))
  ELSE <<Head(s)>> \o HalveQuotes(Tail(s))

RECURSIVE QuoteAll(_)
QuoteAll(slice) ==
  IF slice = <<>> THEN <<>>
  ELSE <<(<<DQ>> \o DoubleQuotes(Head(slice)) \o <<DQ>>)>> \o QuoteAll(Tail(slice))

\* models/video.go convertSliceToPostgresArray
convertSliceToPostgresArray(slice) ==
  IF Len(slice) = 0 THEN <<"{", "}">>
  ELSE <<"{">> \o Join(QuoteAll(slice), ",") \o <<"}">>

RECURSIVE CleanParts(_)
CleanParts(parts) ==
  IF parts = <<>> THEN <<>>
  ELSE <<HalveQuotes(Trim(Head(parts), {DQ}))>> \o CleanParts(Tail(parts))

\* models/video.go convertPostgresArrayToSlice
convertPostgresArrayToSlice(pgArray) ==
  IF pgArray = <<>> \/ pgArray = <<"{", "}">> THEN <<>>
  ELSE LET trimmed == Trim(pgArray, {"{", "}"})
       IN IF trimmed = <<>> THEN <<>>
          ELSE CleanParts(Split(trimmed, ","))

\* services/video_service.go nonEmpty
nonEmpty(v, def) == IF v = "" THEN def ELSE v

(***************************************************************************)
(* models.Video: the in-memory entity.  A row of the videos table is the   *)
(* entity without TagsList (gorm:"-"); Deleted stands for DeletedAt being  *)
(* set.                                                                    *)
(***************************************************************************)
UntitledVideo == "Untitled Video"
StatusUploaded == "uploaded"
StatusProcessing == "processing"
StatusReady == "ready"
StatusFailed == "failed"

Columns ==
  {"ID", "UploadID", "UserID", "Username", "Title", "Description", "Tags",
   "IsPrivate", "Category", "Status", "OriginalFilename", "RawVideoPath",
   "HLSMasterURL", "ThumbnailURL", "Duration", "FileSize", "Width", "Height",
   "VideoCodec", "VideoBitrate", "AudioCodec", "AudioBitrate", "FrameRate",
   "Deleted"}

\* the zero value of models.Video
Video ==
  [ID |-> 0, UploadID |-> "", UserID |-> "", Username |-> "", Title |-> "",
   Description |-> "", Tags |-> <<>>, TagsList |-> <<>>, IsPrivate |-> FALSE,
   Category |-> "", Status |-> "", OriginalFilename |-> "",
   RawVideoPath |-> "", HLSMasterURL |-> "", ThumbnailURL |-> "",
   Duration |-> 0, FileSize |-> 0, Width |-> 0, Height |-> 0,
   VideoCodec |-> "", VideoBitrate |-> 0, AudioCodec |-> "",
   AudioBitrate |-> 0, FrameRate |-> 0, Deleted |-> FALSE]

\* the columns written for an entity
Row(v) == [c \in Columns |-> v[c]]

\* Video.BeforeCreate
BeforeCreate(v) == [v EXCEPT !.Tags = convertSliceToPostgresArray(v.TagsList)]

\* Video.BeforeUpdate
BeforeUpdate(v) == [v EXCEPT !.Tags = convertSliceToPostgresArray(v.TagsList)]

\* Video.AfterFind: the entity loaded from a row
AfterFind(row) ==
  [c \in Columns \cup {"TagsList"} |->
     IF c = "TagsList" THEN convertPostgresArrayToSlice(row.Tags) ELSE row[c]]

(***************************************************************************)
(* The videos table behind gorm.DB.  Queries skip soft-deleted rows; the   *)
(* unique index on upload_id covers every row.                             *)
(***************************************************************************)
ErrRecordNotFound == "record not found"
ErrDuplicateKey == "duplicate key value violates unique constraint"

\* faulty variant of UniqueViolation: the table has no unique index on upload_id
UniqueViolationOff(tbl, row) == FALSE

\* the unique index on upload_id (and the primary key)
UniqueViolation(tbl, row) ==
  \E r \in tbl : r.ID # row.ID /\ r.UploadID = row.UploadID

\* db.Where("upload_id = ?", uploadID).First(&video)
FirstByUploadID(tbl, uploadID) ==
  LET m == {r \in tbl : ~r.Deleted /\ r.UploadID = uploadID}
  IN IF m = {} THEN [err |-> ErrRecordNotFound, video |-> Video]
     ELSE [err |-> "",
           video |-> AfterFind(CHOOSE r \in m : \A o \in m : r.ID <= o.ID)]

\* db.First(&video, id)
FirstByID(tbl, id) ==
  LET m == {r \in tbl : ~r.Deleted /\ r.ID = id}
  IN IF m = {} THEN [err |-> ErrRecordNotFound, video |-> Video]
     ELSE [err |-> "", video |-> AfterFind(CHOOSE r \in m : TRUE)]

\* db.Create(video): insert with the next key of the sequence
Create(tbl, nid, v) ==
  LET w == [BeforeCreate(v) EXCEPT
              !.ID = nid,
              !.Status = IF v.Status = "" THEN StatusUploaded ELSE v.Status]
  IN IF UniqueViolation(tbl, Row(w))
     THEN [err |-> ErrDuplicateKey, videos |-> tbl, nextID |-> nid, video |-> v]
     ELSE [err |-> "", videos |-> tbl \cup {Row(w)}, nextID |-> nid + 1,
           video |-> w]

\* faulty variant of Save: the row is written again under the next key
SaveUnderNewKey(tbl, nid, v) ==
  IF v.ID = 0 THEN Create(tbl, nid, v)
  ELSE LET w == [BeforeUpdate(v) EXCEPT !.ID = nid]
       IN [err |-> "",
           videos |-> {r \in tbl : r.ID # v.ID} \cup {Row(w)},
           nextID |-> nid + 1, video |-> w]

\* db.Save(video) of an entity that has a key: update of every column of
\* the live row; when no live row has the key, insert-or-update by key
Save(tbl, nid, v) ==
  IF v.ID = 0 THEN Create(tbl, nid, v)
  ELSE LET w == BeforeUpdate(v)
       IN IF UniqueViolation(tbl, Row(w))
          THEN [err |-> ErrDuplicateKey, videos |-> tbl, nextID |-> nid,
                video |-> w]
          ELSE [err |-> "",
                videos |-> {r \in tbl : r.ID # w.ID} \cup {Row(w)},
                nextID |-> nid, video |-> w]

(***************************************************************************)
(* A store that answers a call or fails it (connection lost, statement     *)
(* timeout).                                                               *)
(***************************************************************************)
ErrStore == "store error"

\* the store answers the lookup, the insert and the update of a call
StoreOK == [first |-> TRUE, create |-> TRUE, save |-> TRUE]

\* db.Create(video) on a store that answers the call or fails it
CreateDB(tbl, nid, v, ok) ==
  IF ok THEN Create(tbl, nid, v)
  ELSE [err |-> ErrStore, videos |-> tbl, nextID |-> nid, video |-> v]

\* db.Save(video) on a store that answers the call or fails it
SaveDB(tbl, nid, v, ok) ==
  IF ok THEN Save(tbl, nid, v)
  ELSE [err |-> ErrStore, videos |-> tbl, nextID |-> nid, video |-> v]

\* db.Where("upload_id = ?", uploadID).First(&video) on such a store
FirstByUploadIDDB(tbl, uploadID, ok) ==
  IF ok THEN FirstByUploadID(tbl, uploadID)
  ELSE [err |-> ErrStore, video |-> Video]

(***************************************************************************)
(* The merge rules of VideoService.HandleUploadedEvent and                 *)
(* VideoService.HandleTranscodedEvent, field by field as in the source.    *)
(***************************************************************************)

\* HandleUploadedEvent, the entity built when no row exists
NewVideoFromUploaded(event) ==
  [Video EXCEPT
     !.UploadID = event.UploadID,
     !.UserID = event.UserID,
     !.Username = event.Username,
     !.Title = nonEmpty(event.Title, UntitledVideo),
     !.Description = event.Description,
     !.TagsList = event.Tags,
     !.IsPrivate = event.IsPrivate,
     !.Category = event.Category,
     !.OriginalFilename = event.OriginalName,
     !.RawVideoPath = event.RawVideoPath,
     !.Status = StatusProcessing]

\* HandleUploadedEvent, the patch of an existing row, field by field
PatchUsername(existing, event) ==
  IF existing.Username = "" /\ event.Username # "" THEN event.Username
  ELSE existing.Username

PatchTitle(existing, event) ==
  IF existing.Title = UntitledVideo /\ event.Title # "" THEN event.Title
  ELSE existing.Title

PatchIsPrivate(existing, event) ==
  IF ~existing.IsPrivate /\ event.IsPrivate THEN TRUE ELSE existing.IsPrivate

\* HandleUploadedEvent, the patch of an existing row: the patched entity
\* and the updated flag
PatchFromUploaded(existing, event) ==
  [video |->
     [existing EXCEPT
        !.Username = PatchUsername(existing, event),
        !.Title = PatchTitle(existing, event),
        !.Description =
           IF existing.Description = "" /\ event.Description # ""
           THEN event.Description ELSE existing.Description,
        !.TagsList =
           IF Len(existing.TagsList) = 0 /\ Len(event.Tags) > 0
           THEN event.Tags ELSE existing.TagsList,
        !.Category =
           IF existing.Category = "" /\ event.Category # ""
           THEN event.Category ELSE existing.Category,
        !.OriginalFilename =
           IF existing.OriginalFilename = "" /\ event.OriginalName # ""
           THEN event.OriginalName ELSE existing.OriginalFilename,
        !.RawVideoPath =
           IF existing.RawVideoPath = "" /\ event.RawVideoPath # ""
           THEN event.RawVideoPath ELSE existing.RawVideoPath,
        !.IsPrivate = PatchIsPrivate(existing, event)],
   updated |->
     \/ existing.Username = "" /\ event.Username # ""
     \/ existing.Title = UntitledVideo /\ event.Title # ""
     \/ existing.Description = "" /\ event.Description # ""
     \/ Len(existing.TagsList) = 0 /\ Len(event.Tags) > 0
     \/ existing.Category = "" /\ event.Category # ""
     \/ existing.OriginalFilename = "" /\ event.OriginalName # ""
     \/ existing.RawVideoPath = "" /\ event.RawVideoPath # ""
     \/ ~existing.IsPrivate /\ event.IsPrivate]

\* HandleTranscodedEvent, the placeholder built when the lookup fails
NewVideoFromTranscoded(event) ==
  [Video EXCEPT
     !.UploadID = event.UploadID,
     !.UserID = event.UserID,
     !.Title = nonEmpty(event.Title, UntitledVideo),
     !.Status = StatusProcessing]

\* faulty variant of TranscodedStatus: the stored status is kept
TranscodedStatusKept(video) == video.Status

\* HandleTranscodedEvent, the status written before the save
TranscodedStatus(video) == StatusReady

\* HandleTranscodedEvent, backfill and authoritative fields
BackfillTitle(video, event) ==
  IF video.Title = UntitledVideo /\ event.Title # "" THEN event.Title
  ELSE video.Title

BackfillIsPrivate(video, event) ==
  IF ~video.IsPrivate /\ event.IsPrivate THEN TRUE ELSE video.IsPrivate

MergeTranscoded(video, event) ==
  LET m == event.Metadata
      hasMeta == ~m.Nil
  IN [video EXCEPT
        !.Title = BackfillTitle(video, event),
        !.Description =
           IF video.Description = "" /\ event.Description # ""
           THEN event.Description ELSE video.Description,
        !.TagsList =
           IF Len(video.TagsList) = 0 /\ Len(event.Tags) > 0
           THEN event.Tags ELSE video.TagsList,
        !.Category =
           IF video.Category = "" /\ event.Category # ""
           THEN event.Category ELSE video.Category,
        !.OriginalFilename =
           IF video.OriginalFilename = "" /\ event.OriginalFilename # ""
           THEN event.OriginalFilename ELSE video.OriginalFilename,
        !.RawVideoPath =
           IF video.RawVideoPath = "" /\ event.RawVideoPath # ""
           THEN event.RawVideoPath ELSE video.RawVideoPath,
        !.IsPrivate = BackfillIsPrivate(video, event),
        !.HLSMasterURL = event.HLS.MasterURL,
        !.Status = TranscodedStatus(video),
        !.ThumbnailURL =
           IF event.ThumbnailURL # "" THEN event.ThumbnailURL
           ELSE video.ThumbnailURL,
        !.Duration = IF hasMeta THEN m.Duration ELSE video.Duration,
        !.FileSize = IF hasMeta THEN m.FileSize ELSE video.FileSize,
        !.Width = IF hasMeta THEN m.Width ELSE video.Width,
        !.Height = IF hasMeta THEN m.Height ELSE video.Height,
        !.VideoCodec = IF hasMeta THEN m.VideoCodec ELSE video.VideoCodec,
        !.VideoBitrate = IF hasMeta THEN m.VideoBitrate ELSE video.VideoBitrate,
        !.AudioCodec = IF hasMeta THEN m.AudioCodec ELSE video.AudioCodec,
        !.AudioBitrate = IF hasMeta THEN m.AudioBitrate ELSE video.AudioBitrate,
        !.FrameRate = IF hasMeta THEN m.FrameRate ELSE video.FrameRate]

(***************************************************************************)
(* The two handlers, each run from its first line to its return with no    *)
(* other call to the store in between.  The result carries the error (""   *)
(* for nil), the table and key sequence after the call, and whether the    *)
(* lookup found a row.                                                     *)
(***************************************************************************)
\* faulty variant of InvalidUploaded: the identifiers are not checked
InvalidUploadedOff(event) == FALSE

\* HandleUploadedEvent: the check of the identifiers
InvalidUploaded(event) == event.UploadID = "" \/ event.UserID = ""

HandleUploadedEvent(tbl, nid, event) ==
  IF InvalidUploaded(event)
  THEN [err |-> "invalid uploaded event", videos |-> tbl, nextID |-> nid,
        found |-> FALSE]
  ELSE LET q == FirstByUploadID(tbl, event.UploadID)
       IN IF q.err = ""
          THEN LET p == PatchFromUploaded(q.video, event)
                   s == Save(tbl, nid, p.video)
               IN IF p.updated
                  THEN [err |-> IF s.err # ""
                                THEN "patch existing video from upload event"
                                ELSE "",
                        videos |-> s.videos, nextID |-> s.nextID,
                        found |-> TRUE]
                  ELSE [err |-> "", videos |-> tbl, nextID |-> nid,
                        found |-> TRUE]
          ELSE LET c == Create(tbl, nid, NewVideoFromUploaded(event))
               IN [err |-> IF c.err # "" THEN "failed to create video" ELSE "",
                   videos |-> c.videos, nextID |-> c.nextID, found |-> FALSE]

HandleTranscodedEvent(tbl, nid, event) ==
  LET q == FirstByUploadID(tbl, event.UploadID)
      c == Create(tbl, nid, NewVideoFromTranscoded(event))
  IN IF q.err # "" /\ c.err # ""
     THEN [err |-> "failed to create video", videos |-> c.videos,
           nextID |-> c.nextID, found |-> FALSE]
     ELSE LET video == IF q.err # "" THEN c.video ELSE q.video
              t == IF q.err # "" THEN c.videos ELSE tbl
              n == IF q.err # "" THEN c.nextID ELSE nid
              s == Save(t, n, MergeTranscoded(video, event))
          IN [err |-> IF s.err # "" THEN "failed to update video" ELSE "",
              videos |-> s.videos, nextID |-> s.nextID, found |-> q.err = ""]

\* VideoService.UpdateVideo: the fields the request provides are set on
\* the loaded entity
ApplyUpdate(video, req) ==
  [video EXCEPT
     !.Title = IF req.Title.set THEN req.Title.val ELSE @,
     !.Description = IF req.Description.set THEN req.Description.val ELSE @,
     !.TagsList = IF req.Tags.set THEN req.Tags.val ELSE @,
     !.IsPrivate = IF req.IsPrivate.set THEN req.IsPrivate.val ELSE @,
     !.Category = IF req.Category.set THEN req.Category.val ELSE @]

\* VideoService.CreateVideo: the entity built from the request
NewVideoFromRequest(userID, req) ==
  [Video EXCEPT
     !.UploadID = req.UploadID,
     !.UserID = userID,
     !.Title = req.Title,
     !.Description = req.Description,
     !.TagsList = req.Tags,
     !.IsPrivate = req.IsPrivate,
     !.Category = req.Category,
     !.Status = StatusUploaded]

(***************************************************************************)
(* Decoded events handed to the handlers.  Tags are lists of trimmed tags  *)
(* as UnmarshalJSON leaves them; a tag of a native JSON list may contain a *)
(* comma.                                                                  *)
(***************************************************************************)
TagA == <<"a">>
TagB == <<"b">>
TagAB == <<"a", ",", "b">>

ManifestURL == "https://x/hls/user123/u1/master.m3u8"

NilMetadata ==
  [Nil |-> TRUE, Duration |-> 0, FileSize |-> 0, Width |-> 0, Height |-> 0,
   VideoCodec |-> "", VideoBitrate |-> 0, AudioCodec |-> "",
   AudioBitrate |-> 0, FrameRate |-> 0]

Metadata1 ==
  [Nil |-> FALSE, Duration |-> 10, FileSize |-> 1000, Width |-> 1280,
   Height |-> 720, VideoCodec |-> "h264", VideoBitrate |-> 500000,
   AudioCodec |-> "aac", AudioBitrate |-> 128000, FrameRate |-> 30]

Metadata2 ==
  [Nil |-> FALSE, Duration |-> 12, FileSize |-> 2000, Width |-> 640,
   Height |-> 360, VideoCodec |-> "vp9", VideoBitrate |-> 250000,
   AudioCodec |-> "opus", AudioBitrate |-> 64000, FrameRate |-> 25]

\* models.UploadedEvent with only the identifiers set
UploadedBase ==
  [UploadID |-> "u1", UserID |-> "user123", Username |-> "",
   OriginalName |-> "", Title |-> "", Description |-> "", Tags |-> <<>>,
   IsPrivate |-> FALSE, Category |-> "", RawVideoPath |-> ""]

UploadedExample ==
  [UploadedBase EXCEPT
     !.Username = "alice", !.OriginalName = "clip.mp4", !.Title = "My Clip",
     !.Description = "Demo", !.Tags = <<TagA, TagB>>,
     !.Category = "general", !.RawVideoPath = "raw/user123/u1.mp4"]

UploadedEvents ==
  { UploadedBase, UploadedExample,
    [UploadedBase EXCEPT !.Username = "alice"],
    [UploadedBase EXCEPT !.OriginalName = "clip.mp4"],
    [UploadedBase EXCEPT !.Title = "My Clip"],
    [UploadedBase EXCEPT !.Title = UntitledVideo],
    [UploadedBase EXCEPT !.Description = "Demo"],
    [UploadedBase EXCEPT !.Tags = <<TagA>>],
    [UploadedBase EXCEPT !.Tags = <<TagA, TagB>>],
    [UploadedBase EXCEPT !.Tags = <<TagAB>>],
    [UploadedBase EXCEPT !.Title = UntitledVideo, !.Tags = <<TagAB>>],
    [UploadedBase EXCEPT !.IsPrivate = TRUE],
    [UploadedBase EXCEPT !.Category = "general"],
    [UploadedBase EXCEPT !.RawVideoPath = "raw/user123/u1.mp4"],
    [UploadedBase EXCEPT !.UploadID = ""],
    [UploadedBase EXCEPT !.UserID = ""] }

\* models.TranscodedEvent with the identifiers and the manifest URL set
TranscodedBase ==
  [UploadID |-> "u1", UserID |-> "user123", Title |-> "", Description |-> "",
   Tags |-> <<>>, Category |-> "", IsPrivate |-> FALSE,
   OriginalFilename |-> "", RawVideoPath |-> "",
   HLS |-> [MasterURL |-> ManifestURL], ThumbnailURL |-> "",
   Metadata |-> NilMetadata]

TranscodedExample ==
  [TranscodedBase EXCEPT
     !.ThumbnailURL = "https://x/thumbnails/user123/u1.jpg",
     !.Metadata = Metadata1]

\* a finalization event that repeats the descriptive fields of UploadedExample
TranscodedCopy ==
  [TranscodedExample EXCEPT
     !.Title = "My Clip", !.Description = "Demo", !.Tags = <<TagA, TagB>>,
     !.Category = "general", !.OriginalFilename = "clip.mp4",
     !.RawVideoPath = "raw/user123/u1.mp4"]

TranscodedEvents ==
  { TranscodedBase, TranscodedExample, TranscodedCopy,
    [TranscodedBase EXCEPT !.UserID = "user456"],
    [TranscodedBase EXCEPT !.Title = "Real Title"],
    [TranscodedBase EXCEPT !.Title = UntitledVideo],
    [TranscodedBase EXCEPT !.Description = "Other description"],
    [TranscodedBase EXCEPT !.Tags = <<TagB>>],
    [TranscodedBase EXCEPT !.Tags = <<TagAB>>],
    [TranscodedBase EXCEPT !.Category = "music"],
    [TranscodedBase EXCEPT !.IsPrivate = TRUE],
    [TranscodedBase EXCEPT !.OriginalFilename = "other.mp4"],
    [TranscodedBase EXCEPT !.RawVideoPath = "raw/user123/other.mp4"],
    [TranscodedBase EXCEPT !.HLS = [MasterURL |-> ""]],
    [TranscodedBase EXCEPT
       !.HLS = [MasterURL |-> "https://x/hls/user123/u1/v2/master.m3u8"]],
    [TranscodedBase EXCEPT
       !.ThumbnailURL = "https://x/thumbnails/user123/u1.jpg"],
    [TranscodedBase EXCEPT
       !.ThumbnailURL = "https://x/thumbnails/user123/u1-v2.jpg"],
    [TranscodedBase EXCEPT !.Metadata = Metadata1],
    [TranscodedBase EXCEPT !.Metadata = Metadata2] }

(***************************************************************************)
(* Storage paths.  Blob names, prefixes and the strings they are built     *)
(* from are sequences of characters; a run of characters that no string of *)
(* the model splits is written as one element, and "/" is always an        *)
(* element of its own.                                                     *)
(***************************************************************************)
Chars(s) ==
  CASE s = "" -> <<>>
    [] s = "u1" -> <<"u", "1">>
    [] s = "u10" -> <<"u", "1", "0">>
    [] s = "user123" -> <<"user123">>
    [] s = "user456" -> <<"user456">>
    [] s = "raw/user123/u1.mp4" ->
         <<"raw", "/", "user123", "/", "u", "1", ".mp4">>
    [] s = "raw/user123/u10.mp4" ->
         <<"raw", "/", "user123", "/", "u", "1", "0", ".mp4">>
    [] s = "raw/user123/other.mp4" ->
         <<"raw", "/", "user123", "/", "other", ".mp4">>
    [] s = "https://x/hls/user123/u1/master.m3u8" ->
         <<"https:", "/", "/", "x", "/", "hls", "/", "user123", "/",
           "u", "1", "/", "master.m3u8">>
    [] s = "https://x/hls/user123/u1/v2/master.m3u8" ->
         <<"https:", "/", "/", "x", "/", "hls", "/", "user123", "/",
           "u", "1", "/", "v2", "/", "master.m3u8">>
    [] s = "https://x/vod/user123/u1/master.m3u8" ->
         <<"https:", "/", "/", "x", "/", "vod", "/", "user123", "/",
           "u", "1", "/", "master.m3u8">>

\* strings.HasPrefix, as the remote store applies a listing prefix
HasPrefix(name, prefix) ==
  Len(prefix) <= Len(name) /\ SubSeq(name, 1, Len(prefix)) = prefix

\* the non-empty elements of a list of path elements
RECURSIVE NonEmptyElems(_)
NonEmptyElems(elems) ==
  IF elems = <<>> THEN <<>>
  ELSE IF Head(elems) = <<>> THEN NonEmptyElems(Tail(elems))
  ELSE <<Head(elems)>> \o NonEmptyElems(Tail(elems))

\* filepath.Join: the non-empty elements joined by "/" (no element of the
\* model is "." or "..", so filepath.Clean changes nothing else)
PathJoin(elems) == Join(NonEmptyElems(elems), "/")

\* extractHLSPrefix, the loop over the parts of the URL from part i on
RECURSIVE HLSPrefixFrom(_, _)
HLSPrefixFrom(parts, i) ==
  IF i > Len(parts) THEN <<>>
  ELSE IF parts[i] = <<"hls">> /\ i + 2 <= Len(parts)
       THEN PathJoin(<<(<<"hls">>), parts[i + 1], parts[i + 2]>>)
  ELSE HLSPrefixFrom(parts, i + 1)

\* VideoDeleteService.extractHLSPrefix
extractHLSPrefix(masterURL, userID, uploadID) ==
  IF masterURL = "" THEN <<>>
  ELSE LET parts == Split(Chars(masterURL), "/")
           found == \E i \in 1..Len(parts) :
                      parts[i] = <<"hls">> /\ i + 2 <= Len(parts)
       IN IF found THEN HLSPrefixFrom(parts, 1)
          ELSE <<"hls", "/">> \o Chars(userID) \o <<"/">> \o Chars(uploadID)

\* DeleteVideoCompletely: thumbnails/{userID}/{uploadID}.jpg
ThumbnailPath(video) ==
  <<"thumbnails", "/">> \o Chars(video.UserID) \o <<"/">>
    \o Chars(video.UploadID) \o <<".jpg">>

\* DeleteVideoCompletely: videos/{userID}/{uploadID}
OtherPrefix(video) ==
  <<"videos", "/">> \o Chars(video.UserID) \o <<"/">> \o Chars(video.UploadID)

\* DeleteVideoCompletely: pathsToDelete
PathsToDelete(video) ==
  (IF video.RawVideoPath # "" THEN <<Chars(video.RawVideoPath)>> ELSE <<>>)
    \o <<ThumbnailPath(video)>>

\* DeleteVideoCompletely: prefixesToDelete
PrefixesToDelete(video) ==
  LET hlsPrefix ==
        extractHLSPrefix(video.HLSMasterURL, video.UserID, video.UploadID)
  IN (IF video.HLSMasterURL # "" /\ hlsPrefix # <<>>
      THEN <<hlsPrefix>> ELSE <<>>)
       \o <<OtherPrefix(video)>>

(***************************************************************************)
(* The remote blob store of the model: the names a container may hold, in  *)
(* the order a flat listing returns them.                                  *)
(***************************************************************************)
BlobMaster == <<"hls", "/", "user123", "/", "u", "1", "/", "master.m3u8">>
BlobSegment == <<"hls", "/", "user123", "/", "u", "1", "/", "seg0.ts">>
BlobRaw == <<"raw", "/", "user123", "/", "u", "1", ".mp4">>
BlobThumbnail == <<"thumbnails", "/", "user123", "/", "u", "1", ".jpg">>

BlobNames == <<BlobMaster, BlobSegment, BlobRaw, BlobThumbnail>>

AllBlobs == {BlobNames[i] : i \in 1..Len(BlobNames)}

\* the objects of a second asset of the same owner, uploaded as u10
NeighbourNames ==
  << <<"hls", "/", "user123", "/", "u", "1", "0", "/", "master.m3u8">>,
     <<"raw", "/", "user123", "/", "u", "1", "0", ".mp4">>,
     <<"thumbnails", "/", "user123", "/", "u", "1", "0", ".jpg">>,
     <<"videos", "/", "user123", "/", "u", "1", "0", "/", "source.mp4">> >>

NeighbourBlobs == {NeighbourNames[i] : i \in 1..Len(NeighbourNames)}

\* every name of the model, in the (lexicographic) order of a flat listing
Listing ==
  <<BlobMaster, BlobSegment, NeighbourNames[1], BlobRaw, NeighbourNames[2],
    BlobThumbnail, NeighbourNames[3], NeighbourNames[4]>>

\* the blob items of the one page a flat listing with a prefix returns
ListBlobs(store, prefix) ==
  SelectSeq(Listing, LAMBDA b : b \in store /\ HasPrefix(b, prefix))

(***************************************************************************)
(* AzureClientAdapter: the settings of the breaker and of the retry loop   *)
(* (times in milliseconds), and gobreaker's state machine as configured:   *)
(* ReadyToTrip on ConsecutiveFailures >= cbFailures, Timeout cbTimeout,    *)
(* MaxRequests 1, Interval 0.                                              *)
(***************************************************************************)
cbTimeout == 10000
cbFailures == 5
retries == 2
backoff == 200
backoffCap == 1500
attemptTimeout == 3000

ErrOpenState == "circuit breaker is open"
ErrTooManyRequests == "too many requests"
ErrRemote == "remote store error"
ErrContext == "context deadline exceeded"

\* the breaker after construction: closed, generation 0.  fails is
\* Counts.ConsecutiveFailures; reqs is Counts.Requests of a half-open
\* breaker, the only state in which the count is read
BreakerClosed ==
  [state |-> "closed", fails |-> 0, expiry |-> 0, gen |-> 0, reqs |-> 0]

\* no request of the caller is in flight; a request in flight is <<g>>, g
\* the generation beforeRequest returned for it
NoRequest == <<>>

\* gobreaker setState: a change of state starts a new generation with
\* cleared counts; the expiry of an open breaker is t + Timeout
setState(b, state, t) ==
  IF b.state = state THEN b
  ELSE [state |-> state, fails |-> 0,
        expiry |-> IF state = "open" THEN t + cbTimeout ELSE 0,
        gen |-> b.gen + 1, reqs |-> 0]

\* gobreaker currentState: an open breaker whose expiry lies before t
\* becomes half-open
currentState(b, t) ==
  IF b.state = "open" /\ b.expiry < t THEN setState(b, "half-open", t) ELSE b

\* faulty variant of ReadyToTrip: one failure more is needed
ReadyToTripLate(fails) == fails > cbFailures

\* ReadyToTrip of NewAzureClientAdapterFromEnv
ReadyToTrip(fails) == fails >= cbFailures

\* faulty variant of beforeRequest: an open breaker admits the request
beforeRequestOpenRuns(b, t) ==
  LET c == currentState(b, t)
  IN IF c.state = "half-open" /\ c.reqs >= 1
     THEN [breaker |-> c, gen |-> c.gen, err |-> ErrTooManyRequests]
     ELSE [breaker |-> IF c.state = "half-open"
                       THEN [c EXCEPT !.reqs = c.reqs + 1] ELSE c,
           gen |-> c.gen, err |-> ""]

\* gobreaker beforeRequest, the first half of breaker.Execute, at time t:
\* the breaker after it, the generation it returns and its error ("" for
\* nil, the request is admitted); a half-open breaker admits MaxRequests
\* requests, one with the default settings
beforeRequest(b, t) ==
  LET c == currentState(b, t)
  IN IF c.state = "open"
     THEN [breaker |-> c, gen |-> c.gen, err |-> ErrOpenState]
     ELSE IF c.state = "half-open" /\ c.reqs >= 1
     THEN [breaker |-> c, gen |-> c.gen, err |-> ErrTooManyRequests]
     ELSE [breaker |-> IF c.state = "half-open"
                       THEN [c EXCEPT !.reqs = c.reqs + 1] ELSE c,
           gen |-> c.gen, err |-> ""]

\* gobreaker afterRequest, the second half of breaker.Execute, at time t,
\* for a request admitted in generation before: the outcome of a request
\* of an earlier generation is dropped
afterRequest(b, t, before, success) ==
  LET c == currentState(b, t)
  IN IF c.gen # before THEN c
     ELSE IF c.state = "closed"
     THEN IF success THEN [c EXCEPT !.fails = 0]
          ELSE IF ReadyToTrip(c.fails + 1) THEN setState(c, "open", t)
          ELSE [c EXCEPT !.fails = c.fails + 1]
     ELSE IF c.state = "half-open"
     THEN IF success THEN setState(c, "closed", t)
          ELSE setState(c, "open", t)
     ELSE c

(***************************************************************************)
(* State.  videos and nextID are the table and its key sequence.           *)
(*                                                                         *)
(* queue, wk, sent, acked and nacked are the callers of the service: the   *)
(* two consume loops of Consumer.StartConsuming, one per stream, and one   *)
(* request of the HTTP API that edits a record.  queue holds the           *)
(* deliveries waiting on each stream, wk the position and the locals of    *)
(* each caller between two calls to the store, sent every delivery         *)
(* published so far, acked / nacked the delivery tags answered.  The       *)
(* callers run in parallel: a step of one is one call to the store, and    *)
(* steps of the others may come between two steps of a handler.            *)
(*                                                                         *)
(* steps, last and prev record the calls made without the broker: steps    *)
(* counts the calls that have returned, last is the one that returned most *)
(* recently, prev the one before it.  The field solo of a call tells that  *)
(* no other call was in progress between its first line and its return;    *)
(* the field before of a caller is the table as the call found it.         *)
(***************************************************************************)
VARIABLES videos, nextID, steps, last, prev, queue, wk, sent, acked, nacked,
          blobs, remoteUp, flips, breaker, now, ticks, del, pdel, ndel, blobCall,
          payload, other

vars ==
  <<videos, nextID, steps, last, prev, queue, wk, sent, acked, nacked,
    blobs, remoteUp, flips, breaker, now, ticks, del, pdel, ndel, blobCall, payload,
    other>>

seqVars == <<steps, last, prev>>
concVars == <<queue, wk, sent, acked, nacked>>
delVars ==
  <<blobs, remoteUp, flips, breaker, now, ticks, del, pdel, ndel, blobCall, payload,
    other>>

Streams == {"uploaded", "transcoded"}

\* the callers of the service that hold locals between two store calls
Procs == Streams \cup {"edit"}

NoCall ==
  [op |-> "none", event |-> [UploadID |-> ""], err |-> "", found |-> FALSE,
   db |-> StoreOK, solo |-> TRUE]

NoDelivery == [tag |-> 0, bad |-> FALSE, event |-> [UploadID |-> ""]]

Idle ==
  [pc |-> "idle", msg |-> NoDelivery, video |-> Video, err |-> "",
   found |-> FALSE, db |-> StoreOK, solo |-> FALSE, before |-> {}]

\* context.Background(): a context without deadline
Background == [has |-> FALSE, at |-> 0]

\* what is kept of the delete call before the current one
Summary(d) == [pc |-> d.pc, entry |-> d.entry, id |-> d.id, result |-> d.result]

\* no payload with a tags field is being decoded
NoPayload ==
  [event |-> "", tags |-> <<>>, left |-> 0, right |-> 0,
   listDone |-> FALSE, list |-> <<>>, textDone |-> FALSE, text |-> <<>>,
   absentDone |-> FALSE, absent |-> <<>>]

\* no DeleteBlob call with a configured retry count is in progress
NoBlobCall ==
  [pc |-> "none", retries |-> 0, i |-> 0, backoff |-> 0, waits |-> <<>>,
   last |-> ""]

\* no delete call has been made
NoDelete ==
  [pc |-> "idle", entry |-> "", id |-> 0, ctx |-> Background,
   video |-> Video, paths |-> <<>>, prefixes |-> <<>>, kind |-> "",
   items |-> <<>>, i |-> 0, wait |-> 0, waits |-> <<>>, result |-> "",
   log |-> <<>>, remote |-> 0, flight |-> NoRequest, since |-> 0]

\* the catalog before any event
EmptyCatalog == [videos |-> {}, nextID |-> 1]

\* the service after construction, on one of the given catalogs and one of
\* the given containers
InitOn(catalogs, containers) ==
  /\ \E c \in catalogs : videos = c.videos /\ nextID = c.nextID
  /\ steps = 0
  /\ last = NoCall
  /\ prev = NoCall
  /\ queue = [s \in Streams |-> <<>>]
  /\ wk = [p \in Procs |-> Idle]
  /\ sent = <<>>
  /\ acked = {}
  /\ nacked = {}
  /\ blobs \in containers
  /\ remoteUp = TRUE
  /\ flips = 0
  /\ breaker = BreakerClosed
  /\ now = 0
  /\ ticks = 0
  /\ del = NoDelete
  /\ pdel = Summary(NoDelete)
  /\ ndel = 0
  /\ blobCall = NoBlobCall
  /\ payload = NoPayload
  /\ other = NoRequest

\* the catalog c after one more event, handled from its first line to its
\* return
Handled(c, kind, event) ==
  LET r == IF kind = "uploaded"
           THEN HandleUploadedEvent(c.videos, c.nextID, event)
           ELSE HandleTranscodedEvent(c.videos, c.nextID, event)
  IN [videos |-> r.videos, nextID |-> r.nextID]

Init == InitOn({EmptyCatalog}, {AllBlobs})

(***************************************************************************)
(* The handlers and the edit, one store call per step.  A caller goes from *)
(* its lookup to its insert or update in separate steps, with the entity   *)
(* it loaded kept in its locals.                                           *)
(***************************************************************************)

\* HandleUploadedEvent up to and including the lookup, on the locals w of
\* the caller (handleUploaded rejects a payload it cannot decode)
UploadedLookedUp(w, tbl) ==
  LET event == w.msg.event
      q == FirstByUploadIDDB(tbl, event.UploadID, w.db.first)
  IN IF w.msg.bad
     THEN [w EXCEPT !.pc = "reply", !.err = "unmarshal uploaded"]
     ELSE IF InvalidUploaded(event)
     THEN [w EXCEPT !.pc = "reply", !.err = "invalid uploaded event"]
     ELSE IF q.err = ErrRecordNotFound THEN [w EXCEPT !.pc = "create"]
     ELSE IF q.err # ""
     THEN [w EXCEPT !.pc = "reply", !.err = "query existing"]
     ELSE IF PatchFromUploaded(q.video, event).updated
     THEN [w EXCEPT !.pc = "save", !.video = q.video, !.found = TRUE]
     ELSE [w EXCEPT !.pc = "reply", !.video = q.video, !.found = TRUE]

\* HandleTranscodedEvent up to and including the lookup: any error of
\* GetVideoByUploadID leads to the placeholder
TranscodedLookedUp(w, tbl) ==
  LET q == FirstByUploadIDDB(tbl, w.msg.event.UploadID, w.db.first)
  IN IF w.msg.bad
     THEN [w EXCEPT !.pc = "reply", !.err = "unmarshal transcoded"]
     ELSE IF q.err # "" THEN [w EXCEPT !.pc = "create"]
     ELSE [w EXCEPT !.pc = "save", !.video = q.video, !.found = TRUE]

\* the locals of a call made without the broker, at its first line
Started(event, db) ==
  [Idle EXCEPT !.pc = "handle",
               !.msg = [tag |-> 0, bad |-> FALSE, event |-> event],
               !.db = db,
               !.solo = \A q \in Procs : wk[q].pc = "idle",
               !.before = videos]

\* the callers when another call starts
Disturbed ==
  [q \in Procs |->
     IF wk[q].pc = "idle" THEN wk[q] ELSE [wk[q] EXCEPT !.solo = FALSE]]

\* fewer than MaxSteps calls without the broker have been started
CallsLeft ==
  steps + Cardinality({q \in Procs : wk[q].pc # "idle" /\ wk[q].msg.tag = 0})
    < MaxSteps

\* caller p goes on with locals w: a handler that was called without the
\* broker and has ended returns to its caller, a handler called by a consume
\* loop leaves its error to the loop
Proceed(p, w, callers) ==
  IF w.pc = "reply" /\ w.msg.tag = 0
  THEN /\ wk' = [callers EXCEPT ![p] = Idle]
       /\ last' = [op |-> p, event |-> w.msg.event, err |-> w.err,
                   found |-> w.found, db |-> w.db, solo |-> w.solo]
       /\ prev' = last
       /\ steps' = steps + 1
  ELSE /\ wk' = [callers EXCEPT ![p] = w]
       /\ UNCHANGED seqVars

\* VideoService.HandleUploadedEvent is called with a decoded event and runs
\* up to the return of its lookup; db tells which calls of this handler
\* call the store answers
CallHandleUploadedEvent(event, db) ==
  /\ wk["uploaded"].pc = "idle"
  /\ CallsLeft
  /\ Proceed("uploaded", UploadedLookedUp(Started(event, db), videos),
             Disturbed)
  /\ UNCHANGED <<videos, nextID, queue, sent, acked, nacked, delVars>>

\* VideoService.HandleTranscodedEvent is called with a decoded event and
\* runs up to the return of its lookup
CallHandleTranscodedEvent(event, db) ==
  /\ wk["transcoded"].pc = "idle"
  /\ CallsLeft
  /\ Proceed("transcoded", TranscodedLookedUp(Started(event, db), videos),
             Disturbed)
  /\ UNCHANGED <<videos, nextID, queue, sent, acked, nacked, delVars>>

\* HandleUploadedEvent: db.Save(&existing) of the patched entity
UploadedSave ==
  LET w == wk["uploaded"]
      s == SaveDB(videos, nextID,
                  PatchFromUploaded(w.video, w.msg.event).video, w.db.save)
  IN /\ w.pc = "save"
     /\ videos' = s.videos
     /\ nextID' = s.nextID
     /\ Proceed("uploaded",
                [w EXCEPT !.pc = "reply",
                          !.err = IF s.err # ""
                                  THEN "patch existing video from upload event"
                                  ELSE ""],
                wk)
     /\ UNCHANGED <<queue, sent, acked, nacked, delVars>>

\* HandleUploadedEvent: db.Create(video) when the lookup found no row
UploadedCreate ==
  LET w == wk["uploaded"]
      c == CreateDB(videos, nextID, NewVideoFromUploaded(w.msg.event),
                    w.db.create)
  IN /\ w.pc = "create"
     /\ videos' = c.videos
     /\ nextID' = c.nextID
     /\ Proceed("uploaded",
                [w EXCEPT !.pc = "reply",
                          !.err = IF c.err # "" THEN "failed to create video"
                                  ELSE ""],
                wk)
     /\ UNCHANGED <<queue, sent, acked, nacked, delVars>>

\* HandleTranscodedEvent: db.Create(video) of the placeholder
TranscodedCreate ==
  LET w == wk["transcoded"]
      c == CreateDB(videos, nextID, NewVideoFromTranscoded(w.msg.event),
                    w.db.create)
  IN /\ w.pc = "create"
     /\ videos' = c.videos
     /\ nextID' = c.nextID
     /\ Proceed("transcoded",
                IF c.err # ""
                THEN [w EXCEPT !.pc = "reply", !.err = "failed to create video"]
                ELSE [w EXCEPT !.pc = "save", !.video = c.video],
                wk)
     /\ UNCHANGED <<queue, sent, acked, nacked, delVars>>

\* HandleTranscodedEvent: the merge into the loaded entity and db.Save(video)
TranscodedSave ==
  LET w == wk["transcoded"]
      s == SaveDB(videos, nextID, MergeTranscoded(w.video, w.msg.event),
                  w.db.save)
  IN /\ w.pc = "save"
     /\ videos' = s.videos
     /\ nextID' = s.nextID
     /\ Proceed("transcoded",
                [w EXCEPT !.pc = "reply",
                          !.err = IF s.err # "" THEN "failed to update video"
                                  ELSE ""],
                wk)
     /\ UNCHANGED <<queue, sent, acked, nacked, delVars>>

\* VideoService.UpdateVideo is called and runs up to the return of GetVideo
CallUpdateVideo(id, req) ==
  LET q == FirstByID(videos, id)
      w == Started([UploadID |-> "", id |-> id, req |-> req], StoreOK)
  IN /\ wk["edit"].pc = "idle"
     /\ CallsLeft
     /\ Proceed("edit",
                IF q.err # ""
                THEN [w EXCEPT !.pc = "reply", !.err = "video not found"]
                ELSE [w EXCEPT !.pc = "save", !.video = q.video,
                               !.found = TRUE],
                Disturbed)
     /\ UNCHANGED <<videos, nextID, queue, sent, acked, nacked, delVars>>

\* UpdateVideo: the fields of the request are set on the loaded entity and
\* db.Save(video) writes it
UpdateVideoSave ==
  LET w == wk["edit"]
      s == Save(videos, nextID, ApplyUpdate(w.video, w.msg.event.req))
  IN /\ w.pc = "save"
     /\ videos' = s.videos
     /\ nextID' = s.nextID
     /\ Proceed("edit",
                [w EXCEPT !.pc = "reply",
                          !.err = IF s.err # "" THEN "failed to update video"
                                  ELSE ""],
                wk)
     /\ UNCHANGED <<queue, sent, acked, nacked, delVars>>

\* VideoService.CreateVideo, from its first line to its return: it makes
\* one call to the store
CallCreateVideo(userID, req) ==
  LET c == Create(videos, nextID, NewVideoFromRequest(userID, req))
      err == IF req.UploadID = "" THEN "upload_id required"
             ELSE IF c.err # "" THEN "failed to create video" ELSE ""
  IN /\ CallsLeft
     /\ videos' = IF req.UploadID = "" THEN videos ELSE c.videos
     /\ nextID' = IF req.UploadID = "" THEN nextID ELSE c.nextID
     /\ wk' = Disturbed
     /\ last' = [op |-> "create",
                 event |-> [UploadID |-> req.UploadID, UserID |-> userID,
                            req |-> req],
                 err |-> err, found |-> FALSE, db |-> StoreOK,
                 solo |-> \A q \in Procs : wk[q].pc = "idle"]
     /\ prev' = last
     /\ steps' = steps + 1
     /\ UNCHANGED <<queue, sent, acked, nacked, delVars>>

(***************************************************************************)
(* Spec: the two handlers called with decoded events, in parallel as the   *)
(* two consume loops call them; the store answers every call.              *)
(***************************************************************************)
Next ==
  \/ \E event \in UploadedEvents : CallHandleUploadedEvent(event, StoreOK)
  \/ \E event \in TranscodedEvents : CallHandleTranscodedEvent(event, StoreOK)
  \/ UploadedSave
  \/ UploadedCreate
  \/ TranscodedCreate
  \/ TranscodedSave

Spec == Init /\ [][Next]_vars

(***************************************************************************)
(* SpecEdit: the handlers of Spec together with the requests of the HTTP   *)
(* API that write the catalog, VideoService.UpdateVideo and                *)
(* VideoService.CreateVideo.                                               *)
(***************************************************************************)
EditUploadedEvents == {UploadedBase, UploadedExample}

EditTranscodedEvents ==
  { TranscodedBase, TranscodedCopy,
    [TranscodedBase EXCEPT !.Title = "Real Title"],
    [TranscodedBase EXCEPT !.Description = "Other description"],
    [TranscodedBase EXCEPT !.Tags = <<TagB>>],
    [TranscodedBase EXCEPT !.Category = "music"] }

\* models.VideoUpdateRequest with no field provided
NoEdit ==
  [Title |-> [set |-> FALSE, val |-> ""],
   Description |-> [set |-> FALSE, val |-> ""],
   Tags |-> [set |-> FALSE, val |-> <<>>],
   IsPrivate |-> [set |-> FALSE, val |-> FALSE],
   Category |-> [set |-> FALSE, val |-> ""]]

EditRequests ==
  { [NoEdit EXCEPT !.Title = [set |-> TRUE, val |-> "Edited Title"]],
    [NoEdit EXCEPT !.Description = [set |-> TRUE, val |-> "Edited text"]],
    [NoEdit EXCEPT !.Tags = [set |-> TRUE, val |-> <<TagA>>]],
    [NoEdit EXCEPT !.Tags = [set |-> TRUE, val |-> <<TagAB>>]],
    [NoEdit EXCEPT !.Category = [set |-> TRUE, val |-> "edited"]],
    [NoEdit EXCEPT !.IsPrivate = [set |-> TRUE, val |-> FALSE]] }

\* models.VideoCreateRequest as POST /api/v1/videos binds it
CreateRequests ==
  { [UploadID |-> "u1", Title |-> "Manual", Description |-> "",
     Tags |-> <<>>, IsPrivate |-> FALSE, Category |-> ""],
    [UploadID |-> "", Title |-> "Manual", Description |-> "",
     Tags |-> <<>>, IsPrivate |-> FALSE, Category |-> ""] }

NextEdit ==
  \/ \E event \in EditUploadedEvents : CallHandleUploadedEvent(event, StoreOK)
  \/ \E event \in EditTranscodedEvents :
       CallHandleTranscodedEvent(event, StoreOK)
  \/ UploadedSave
  \/ UploadedCreate
  \/ TranscodedCreate
  \/ TranscodedSave
  \/ \E id \in 1..nextID : \E req \in EditRequests : CallUpdateVideo(id, req)
  \/ UpdateVideoSave
  \/ \E req \in CreateRequests : CallCreateVideo("user123", req)

\* the catalog is empty, or holds the record of one registration
InitEdit ==
  InitOn({EmptyCatalog, Handled(EmptyCatalog, "uploaded", UploadedBase)},
         {AllBlobs})

SpecEdit == InitEdit /\ [][NextEdit]_vars

(***************************************************************************)
(* SpecConc: the two consume loops run in parallel, one delivery at a time *)
(* per stream.                                                             *)
(***************************************************************************)
ConcUploadedEvents == {UploadedExample, UploadedBase}

ConcTranscodedEvents ==
  {TranscodedExample, [TranscodedBase EXCEPT !.Title = "Real Title"]}

PayloadsOf(s) ==
  IF s = "uploaded" THEN ConcUploadedEvents ELSE ConcTranscodedEvents

\* the broker routes a published payload to the queue of its stream; a bad
\* payload is one json.Unmarshal rejects
Publish(s, event, bad) ==
  /\ Len(sent) < MaxMsgs
  /\ LET m == [tag |-> Len(sent) + 1, bad |-> bad, event |-> event]
     IN /\ queue' = [queue EXCEPT ![s] = Append(@, m)]
        /\ sent' = Append(sent, [stream |-> s, msg |-> m])
  /\ UNCHANGED <<videos, nextID, wk, acked, nacked, seqVars, delVars>>

\* consumeLoop: for msg := range msgs
Receive(s) ==
  /\ wk[s].pc = "idle"
  /\ queue[s] # <<>>
  /\ wk' = [wk EXCEPT ![s] = [Idle EXCEPT !.pc = "handle", !.msg = Head(queue[s])]]
  /\ queue' = [queue EXCEPT ![s] = Tail(@)]
  /\ UNCHANGED <<videos, nextID, sent, acked, nacked, seqVars, delVars>>

\* handleUploaded and HandleUploadedEvent up to the return of the lookup
UploadedLookup ==
  /\ wk["uploaded"].pc = "handle"
  /\ Proceed("uploaded", UploadedLookedUp(wk["uploaded"], videos), wk)
  /\ UNCHANGED <<videos, nextID, queue, sent, acked, nacked, delVars>>

\* handleTranscoded and HandleTranscodedEvent up to the return of the lookup
TranscodedLookup ==
  /\ wk["transcoded"].pc = "handle"
  /\ Proceed("transcoded", TranscodedLookedUp(wk["transcoded"], videos), wk)
  /\ UNCHANGED <<videos, nextID, queue, sent, acked, nacked, delVars>>

\* faulty variant of Reply: every delivery is acknowledged
ReplyAlwaysAck(s) ==
  /\ wk[s].pc = "reply"
  /\ acked' = acked \cup {wk[s].msg.tag}
  /\ nacked' = nacked
  /\ wk' = [wk EXCEPT ![s] = Idle]
  /\ UNCHANGED <<videos, nextID, queue, sent, seqVars, delVars>>

\* consumeLoop: msg.Nack(false, false) on error, msg.Ack(false) otherwise
Reply(s) ==
  /\ wk[s].pc = "reply"
  /\ IF wk[s].err # ""
     THEN nacked' = nacked \cup {wk[s].msg.tag} /\ acked' = acked
     ELSE acked' = acked \cup {wk[s].msg.tag} /\ nacked' = nacked
  /\ wk' = [wk EXCEPT ![s] = Idle]
  /\ UNCHANGED <<videos, nextID, queue, sent, seqVars, delVars>>

NextConc ==
  \/ \E s \in Streams : \E event \in PayloadsOf(s) : \E bad \in BOOLEAN :
       Publish(s, event, bad)
  \/ \E s \in Streams : Receive(s)
  \/ UploadedLookup
  \/ UploadedSave
  \/ UploadedCreate
  \/ TranscodedLookup
  \/ TranscodedCreate
  \/ TranscodedSave
  \/ \E s \in Streams : Reply(s)

SpecConc == Init /\ [][NextConc]_vars

(***************************************************************************)
(* SpecDelete: delete calls run one at a time, every store call and every  *)
(* step of a request through the breaker is one step, on a catalog the     *)
(* events have filled before.  The relational store may fail any call; the *)
(* remote store fails every request while it is down.                      *)
(***************************************************************************)
DelUploadedEvents == {UploadedExample}

DelTranscodedEvents == {TranscodedExample}

\* the catalogs the delete calls meet: empty, or one record that was
\* registered, finalized, or both in either order
DelCatalogs ==
  LET u == Handled(EmptyCatalog, "uploaded", UploadedExample)
      t == Handled(EmptyCatalog, "transcoded", TranscodedExample)
  IN { EmptyCatalog, u, t,
       Handled(u, "transcoded", TranscodedExample),
       Handled(t, "uploaded", UploadedExample) }

\* the timeouts a caller of DeleteVideoCompletely may put on its context
CallerTimeouts == {cbTimeout}

\* the context is done
CtxDone(ctx, t) == ctx.has /\ t >= ctx.at

\* a line of the call log
Entry(call, arg, err) ==
  [call |-> call, arg |-> arg, err |-> err, exists |-> FALSE,
   attempts |-> 0, waits |-> <<>>]

\* faulty variant of NextPc: the row deletion comes first
NextPcRowFirst(paths, prefixes) == "dbdelete"

\* DeleteVideoCompletely: the next loop, or the row deletion after both
NextPc(paths, prefixes) ==
  IF paths # <<>> THEN "exists"
  ELSE IF prefixes # <<>> THEN "list"
  ELSE "dbdelete"

\* the context of the request the delete call d makes: the context of the
\* call, and for an attempt of DeleteBlob context.WithTimeout(ctx,
\* attemptTimeout), made at d.since, when the attempt started
RequestCtx(d) ==
  IF d.pc # "delete" THEN d.ctx
  ELSE [has |-> TRUE,
        at |-> IF d.ctx.has /\ d.ctx.at < d.since + attemptTimeout
               THEN d.ctx.at ELSE d.since + attemptTimeout]

\* faulty variant of RequestErr: the error of a request is dropped
RequestErrDropped(ctx, t, ok) == ""

\* the error of a request to the remote store made at time t
RequestErr(ctx, t, ok) ==
  IF CtxDone(ctx, t) THEN ErrContext ELSE IF ok THEN "" ELSE ErrRemote

\* the requests that reached the remote store, after the function passed
\* to Execute has started for one more: it makes its call to the remote
\* store at once, unless the context it is given is done by then
Remote(d) ==
  IF CtxDone(d.ctx, now) THEN d.remote ELSE d.remote + 1

StartDelete(entry, id, ctx) ==
  /\ del.pc \in {"idle", "done"}
  /\ ndel < MaxDeletes
  /\ del' = [NoDelete EXCEPT !.pc = "first", !.entry = entry, !.id = id,
                             !.ctx = ctx]
  /\ pdel' = Summary(del)
  /\ ndel' = ndel + 1
  /\ UNCHANGED <<videos, nextID, blobs, remoteUp, flips, breaker, now, ticks,
                 seqVars, concVars, blobCall, payload, other>>

\* VideoService.DeleteVideo with the delete service available
DeleteVideo(id) == StartDelete("DeleteVideo", id, Background)

\* VideoDeleteService.DeleteVideoCompletely called with a context that has
\* a deadline
DeleteVideoCompletely(id, timeout) ==
  StartDelete("DeleteVideoCompletely", id, [has |-> TRUE, at |-> now + timeout])

\* DeleteVideoCompletely: db.First(&video, videoID) and the deletion plan
DeleteFirst(dbOK) ==
  LET q == FirstByID(videos, del.id)
      paths == PathsToDelete(q.video)
      prefixes == PrefixesToDelete(q.video)
  IN /\ del.pc = "first"
     /\ del' =
          IF ~dbOK
          THEN [del EXCEPT !.pc = "done", !.result = "failed to get video",
                  !.log = Append(@, Entry("db.First", <<>>, "store error"))]
          ELSE IF q.err # ""
          THEN [del EXCEPT !.pc = "done", !.result = "video not found",
                  !.log = Append(@, Entry("db.First", <<>>, q.err))]
          ELSE [del EXCEPT !.pc = NextPc(paths, prefixes), !.video = q.video,
                  !.paths = paths, !.prefixes = prefixes,
                  !.log = Append(@, Entry("db.First", <<>>, ""))]
     /\ UNCHANGED <<videos, nextID, blobs, remoteUp, flips, breaker, now, ticks,
                    pdel, ndel,
                    seqVars, concVars, blobCall, payload, other>>

\* gobreaker beforeRequest for the request the delete call is about to make
Admission == beforeRequest(breaker, now)

\* the delete call enters breaker.Execute and its request is admitted: the
\* function passed to Execute starts and makes its call to the remote store
DeleteAdmit ==
  /\ del.pc \in {"exists", "list", "delete"}
  /\ del.flight = NoRequest
  /\ Admission.err = ""
  /\ breaker' = Admission.breaker
  /\ del' = [del EXCEPT !.flight = <<Admission.gen>>,
                         !.since = IF del.pc = "delete" THEN now ELSE 0,
                         !.remote = Remote(del)]
  /\ UNCHANGED <<videos, nextID, blobs, remoteUp, flips, now, ticks, pdel, ndel,
                 seqVars, concVars, blobCall, payload, other>>

\* breaker.Execute can return to the delete call: its request is in
\* flight, or beforeRequest rejects it
Answerable == del.flight # NoRequest \/ Admission.err # ""

\* breaker.Execute returns to the delete call: the error of beforeRequest
\* for a request that was rejected, and else the outcome err of the
\* request, which afterRequest reports to the breaker
Executed(err) ==
  IF del.flight = NoRequest
  THEN [breaker |-> Admission.breaker, ran |-> FALSE, err |-> Admission.err]
  ELSE [breaker |-> afterRequest(breaker, now, del.flight[1], err = ""),
        ran |-> TRUE, err |-> err]

\* the delete call with no request in flight
Landed == [del EXCEPT !.flight = NoRequest, !.since = 0]

\* faulty variant of DeleteExists: a failed existence check ends the call
DeleteExistsAbort ==
  LET name == Head(del.paths)
      e == Executed(RequestErr(del.ctx, now, remoteUp))
      exists == name \in blobs
      rest == Tail(del.paths)
  IN /\ del.pc = "exists"
     /\ Answerable
     /\ breaker' = e.breaker
     /\ del' =
          IF e.err # ""
          THEN [Landed EXCEPT !.pc = "done", !.paths = rest,
                  !.result = "failed to check if file exists",
                  !.log = @ \o <<Entry("BlobExists", name, e.err),
                                 Entry("deleteFileIfExists", name,
                                       "failed to check if file exists")>>]
          ELSE IF ~exists
          THEN [Landed EXCEPT !.pc = NextPc(rest, del.prefixes), !.paths = rest,
                  !.log = @ \o <<Entry("BlobExists", name, ""),
                                 Entry("deleteFileIfExists", name, "")>>]
          ELSE [Landed EXCEPT !.pc = "delete", !.kind = "file", !.i = 0,
                  !.wait = backoff, !.waits = <<>>,
                  !.log = Append(@, [Entry("BlobExists", name, "")
                                       EXCEPT !.exists = TRUE])]
     /\ UNCHANGED <<videos, nextID, blobs, remoteUp, flips, now, ticks, pdel, ndel,
                    seqVars, concVars, blobCall, payload, other>>

\* deleteFileIfExists: azure.BlobExists(ctx, path)
DeleteExists ==
  LET name == Head(del.paths)
      e == Executed(RequestErr(del.ctx, now, remoteUp))
      exists == name \in blobs
      rest == Tail(del.paths)
  IN /\ del.pc = "exists"
     /\ Answerable
     /\ breaker' = e.breaker
     /\ del' =
          IF e.err # ""
          THEN [Landed EXCEPT !.pc = NextPc(rest, del.prefixes), !.paths = rest,
                  !.log = @ \o <<Entry("BlobExists", name, e.err),
                                 Entry("deleteFileIfExists", name,
                                       "failed to check if file exists")>>]
          ELSE IF ~exists
          THEN [Landed EXCEPT !.pc = NextPc(rest, del.prefixes), !.paths = rest,
                  !.log = @ \o <<Entry("BlobExists", name, ""),
                                 Entry("deleteFileIfExists", name, "")>>]
          ELSE [Landed EXCEPT !.pc = "delete", !.kind = "file", !.i = 0,
                  !.wait = backoff, !.waits = <<>>,
                  !.log = Append(@, [Entry("BlobExists", name, "")
                                       EXCEPT !.exists = TRUE])]
     /\ UNCHANGED <<videos, nextID, blobs, remoteUp, flips, now, ticks, pdel, ndel,
                    seqVars, concVars, blobCall, payload, other>>

\* DeleteBlobsWithPrefix: the first page of the listing
DeleteList ==
  LET prefix == Head(del.prefixes)
      e == Executed(RequestErr(del.ctx, now, remoteUp))
      items == ListBlobs(blobs, prefix)
      rest == Tail(del.prefixes)
  IN /\ del.pc = "list"
     /\ Answerable
     /\ breaker' = e.breaker
     /\ del' =
          IF e.err # ""
          THEN [Landed EXCEPT !.pc = NextPc(<<>>, rest), !.prefixes = rest,
                  !.log = @ \o <<Entry("NextPage", prefix, e.err),
                                 Entry("DeleteBlobsWithPrefix", prefix,
                                       "failed to list blobs with prefix")>>]
          ELSE IF items = <<>>
          THEN [Landed EXCEPT !.pc = NextPc(<<>>, rest), !.prefixes = rest,
                  !.log = @ \o <<Entry("NextPage", prefix, ""),
                                 Entry("DeleteBlobsWithPrefix", prefix, "")>>]
          ELSE [Landed EXCEPT !.pc = "delete", !.kind = "prefix",
                  !.items = items, !.i = 0, !.wait = backoff, !.waits = <<>>,
                  !.log = Append(@, [Entry("NextPage", prefix, "")
                                       EXCEPT !.exists = TRUE])]
     /\ UNCHANGED <<videos, nextID, blobs, remoteUp, flips, now, ticks, pdel, ndel,
                    seqVars, concVars, blobCall, payload, other>>

\* the record of a DeleteBlob call that returns err after its attempt i
BlobEntry(d, name, err) ==
  [Entry("DeleteBlob", name, err) EXCEPT
     !.attempts = d.i + 1, !.waits = d.waits]

\* the call after DeleteBlob has returned err to its caller
AfterDeleteBlob(d, name, err) ==
  IF d.kind = "file"
  THEN [d EXCEPT
          !.pc = NextPc(Tail(d.paths), d.prefixes), !.paths = Tail(d.paths),
          !.log = @ \o <<BlobEntry(d, name, err),
                         Entry("deleteFileIfExists", name,
                               IF err = "" THEN ""
                               ELSE "failed to delete file")>>]
  ELSE IF err # ""
  THEN [d EXCEPT
          !.pc = NextPc(<<>>, Tail(d.prefixes)),
          !.prefixes = Tail(d.prefixes), !.items = <<>>,
          !.log = @ \o <<BlobEntry(d, name, err),
                         Entry("DeleteBlobsWithPrefix", Head(d.prefixes),
                               "failed to delete blob")>>]
  ELSE IF Tail(d.items) = <<>>
  THEN [d EXCEPT
          !.pc = NextPc(<<>>, Tail(d.prefixes)),
          !.prefixes = Tail(d.prefixes), !.items = <<>>,
          !.log = @ \o <<BlobEntry(d, name, ""),
                         Entry("DeleteBlobsWithPrefix", Head(d.prefixes), "")>>]
  ELSE [d EXCEPT
          !.items = Tail(d.items), !.i = 0, !.wait = backoff, !.waits = <<>>,
          !.log = Append(@, BlobEntry(d, name, ""))]

\* faulty variant of DeleteBlobAttempt: the loop makes one attempt more
DeleteBlobAttemptOneMore ==
  LET name == IF del.kind = "file" THEN Head(del.paths) ELSE Head(del.items)
      e == Executed(RequestErr(RequestCtx(del), now,
                               remoteUp /\ name \in blobs))
      d == Landed
  IN /\ del.pc = "delete"
     /\ Answerable
     /\ breaker' = e.breaker
     /\ blobs' = IF e.err = "" THEN blobs \ {name} ELSE blobs
     /\ IF e.err # "" /\ del.i <= retries
        THEN /\ now' = now + del.wait
             /\ del' = [d EXCEPT
                          !.i = del.i + 1,
                          !.waits = Append(@, del.wait),
                          !.wait = IF del.wait < backoffCap
                                   THEN 2 * del.wait ELSE del.wait]
        ELSE /\ now' = now
             /\ del' = AfterDeleteBlob(d, name, e.err)
     /\ UNCHANGED <<videos, nextID, remoteUp, flips, ticks, pdel, ndel,
                    seqVars, concVars, blobCall, payload, other>>

\* AzureClientAdapter.DeleteBlob: one pass of the retry loop
DeleteBlobAttempt ==
  LET name == IF del.kind = "file" THEN Head(del.paths) ELSE Head(del.items)
      e == Executed(RequestErr(RequestCtx(del), now,
                               remoteUp /\ name \in blobs))
      d == Landed
  IN /\ del.pc = "delete"
     /\ Answerable
     /\ breaker' = e.breaker
     /\ blobs' = IF e.err = "" THEN blobs \ {name} ELSE blobs
     /\ IF e.err # "" /\ del.i < retries
        THEN /\ now' = now + del.wait
             /\ del' = [d EXCEPT
                          !.i = del.i + 1,
                          !.waits = Append(@, del.wait),
                          !.wait = IF del.wait < backoffCap
                                   THEN 2 * del.wait ELSE del.wait]
        ELSE /\ now' = now
             /\ del' = AfterDeleteBlob(d, name, e.err)
     /\ UNCHANGED <<videos, nextID, remoteUp, flips, ticks, pdel, ndel,
                    seqVars, concVars, blobCall, payload, other>>

\* faulty variant of HardDelete: the row stays
HardDeleteOff(tbl, id) == tbl

\* db.Unscoped().Delete(&video): the row with the key of the entity is gone
HardDelete(tbl, id) == {r \in tbl : r.ID # id}

\* faulty variant of DeleteRow: the row is removed although the store
\* reported a failure
DeleteRowAlways(dbOK) ==
  /\ del.pc = "dbdelete"
  /\ videos' = HardDelete(videos, del.video.ID)
  /\ del' = [del EXCEPT
               !.pc = "done",
               !.result = IF dbOK THEN ""
                          ELSE "failed to delete video from database",
               !.log = Append(@, Entry("db.Delete", <<>>,
                                       IF dbOK THEN "" ELSE "store error"))]
  /\ UNCHANGED <<nextID, blobs, remoteUp, flips, breaker, now, ticks, pdel, ndel,
                 seqVars, concVars, blobCall, payload, other>>

\* DeleteVideoCompletely: db.Unscoped().Delete(&video) and the return
DeleteRow(dbOK) ==
  /\ del.pc = "dbdelete"
  /\ videos' = IF dbOK THEN HardDelete(videos, del.video.ID) ELSE videos
  /\ del' = [del EXCEPT
               !.pc = "done",
               !.result = IF dbOK THEN ""
                          ELSE "failed to delete video from database",
               !.log = Append(@, Entry("db.Delete", <<>>,
                                       IF dbOK THEN "" ELSE "store error"))]
  /\ UNCHANGED <<nextID, blobs, remoteUp, flips, breaker, now, ticks, pdel, ndel,
                 seqVars, concVars, blobCall, payload, other>>

\* the remote store starts or stops failing requests, between two requests
\* of a delete call
RemoteFlip ==
  /\ flips < MaxFlips
  /\ del.pc \in {"exists", "list", "delete"}
  /\ remoteUp' = ~remoteUp
  /\ flips' = flips + 1
  /\ UNCHANGED <<videos, nextID, blobs, breaker, now, ticks, del, pdel, ndel,
                 seqVars, concVars, blobCall, payload, other>>

\* time passes while something waits for it, an open breaker, the deadline
\* of a running call or the timeout of a DeleteBlob attempt in flight, and
\* for longer than any of them waits
Tick ==
  /\ ticks < MaxTicks
  /\ \/ breaker.state = "open"
     \/ del.pc \notin {"idle", "done"} /\ del.ctx.has
     \/ del.pc = "delete" /\ del.flight # NoRequest
  /\ now' = now + cbTimeout + backoff
  /\ ticks' = ticks + 1
  /\ UNCHANGED <<videos, nextID, blobs, remoteUp, flips, breaker, del, pdel, ndel,
                 seqVars, concVars, blobCall, payload, other>>

\* the container holds every object of the asset, or every one but the
\* thumbnail
DelContainers == {AllBlobs, AllBlobs \ {BlobThumbnail}}

InitDelete == InitOn(DelCatalogs, DelContainers)

NextDelete ==
  \/ \E id \in 1..nextID : DeleteVideo(id)
  \/ \E id \in 1..nextID : \E timeout \in CallerTimeouts :
       DeleteVideoCompletely(id, timeout)
  \/ \E dbOK \in BOOLEAN : DeleteFirst(dbOK)
  \/ DeleteAdmit
  \/ DeleteExists
  \/ DeleteList
  \/ DeleteBlobAttempt
  \/ \E dbOK \in BOOLEAN : DeleteRow(dbOK)
  \/ RemoteFlip
  \/ Tick

SpecDelete == InitDelete /\ [][NextDelete]_vars

(***************************************************************************)
(* SpecShared: the delete calls of SpecDelete together with another caller *)
(* of the adapter.  The one breaker of AzureClientAdapter is shared by     *)
(* every call made through the adapter, and its lock is held only inside   *)
(* beforeRequest and afterRequest: a request of the other caller may be in *)
(* flight while the delete call enters or leaves breaker.Execute, and the  *)
(* other way round.  other is the request of the other caller in flight,   *)
(* <<g>> with g the generation beforeRequest returned for it.  The         *)
(* relational store is healthy and the delete calls have no deadline.      *)
(***************************************************************************)
\* another caller of the adapter enters breaker.Execute
OtherBefore ==
  LET a == beforeRequest(breaker, now)
  IN /\ other = NoRequest
     /\ breaker' = a.breaker
     /\ other' = IF a.err = "" THEN <<a.gen>> ELSE NoRequest
     /\ breaker' # breaker \/ other' # other
     /\ UNCHANGED <<videos, nextID, blobs, remoteUp, flips, now, ticks, del,
                    pdel, ndel, seqVars, concVars, blobCall, payload>>

\* the request of the other caller ends and breaker.Execute reports its
\* outcome
OtherAfter ==
  /\ other # NoRequest
  /\ breaker' = afterRequest(breaker, now, other[1],
                             RequestErr(Background, now, remoteUp) = "")
  /\ other' = NoRequest
  /\ UNCHANGED <<videos, nextID, blobs, remoteUp, flips, now, ticks, del,
                 pdel, ndel, seqVars, concVars, blobCall, payload>>

NextShared ==
  \/ \E id \in 1..nextID : DeleteVideo(id)
  \/ DeleteFirst(TRUE)
  \/ DeleteAdmit
  \/ DeleteExists
  \/ DeleteList
  \/ DeleteBlobAttempt
  \/ DeleteRow(TRUE)
  \/ RemoteFlip
  \/ Tick
  \/ OtherBefore
  \/ OtherAfter

\* the catalog holds one record, registered and finalized, and the
\* container every object of the asset
InitShared ==
  InitOn({Handled(Handled(EmptyCatalog, "uploaded", UploadedExample),
                  "transcoded", TranscodedExample)},
         {AllBlobs})

SpecShared == InitShared /\ [][NextShared]_vars

(***************************************************************************)
(* SpecNeighbour: delete calls on a catalog and a container that hold two  *)
(* assets of one owner, uploaded as u1 and as u10; both stores are healthy *)
(* and the calls have no deadline.                                         *)
(***************************************************************************)
\* the registration event of the second asset
UploadedNeighbour ==
  [UploadedBase EXCEPT
     !.UploadID = "u10", !.Title = "Second Clip",
     !.RawVideoPath = "raw/user123/u10.mp4"]

\* the catalog holds the record of the first asset, registered or
\* registered and finalized, and the record of the second; the container
\* holds the objects of both assets, those of the first with or without its
\* thumbnail, those of the second with or without its source copy
InitNeighbour ==
  LET u == Handled(EmptyCatalog, "uploaded", UploadedExample)
      n == Handled(u, "uploaded", UploadedNeighbour)
  IN InitOn({u, n, Handled(n, "transcoded", TranscodedExample)},
            {a \cup b : a \in DelContainers,
                        b \in {NeighbourBlobs,
                               NeighbourBlobs \ {NeighbourNames[4]}}})

NextNeighbour ==
  \/ \E id \in 1..nextID : DeleteVideo(id)
  \/ DeleteFirst(TRUE)
  \/ DeleteAdmit
  \/ DeleteExists
  \/ DeleteList
  \/ DeleteBlobAttempt
  \/ DeleteRow(TRUE)

SpecNeighbour == InitNeighbour /\ [][NextNeighbour]_vars

\* the service on the empty catalog, the container as in SpecDelete
InitLife == InitOn({EmptyCatalog}, DelContainers)

(***************************************************************************)
(* SpecRevive: the two consume loops of SpecConc, on well-formed           *)
(* deliveries, together with delete calls; every store call of a handler   *)
(* and of a delete call is one step, so that a row may be removed between  *)
(* the lookup and the save of a handler.  Both stores are healthy.         *)
(***************************************************************************)
NextRevive ==
  \/ \E event \in {UploadedExample, UploadedBase} :
       Publish("uploaded", event, FALSE)
  \/ Publish("transcoded", TranscodedExample, FALSE)
  \/ \E s \in Streams : Receive(s)
  \/ UploadedLookup
  \/ UploadedSave
  \/ UploadedCreate
  \/ TranscodedLookup
  \/ TranscodedCreate
  \/ TranscodedSave
  \/ \E s \in Streams : Reply(s)
  \/ \E id \in 1..nextID : ndel = 0 /\ DeleteVideo(id)
  \/ DeleteFirst(TRUE)
  \/ DeleteAdmit
  \/ DeleteExists
  \/ DeleteList
  \/ DeleteBlobAttempt
  \/ DeleteRow(TRUE)

SpecRevive == InitLife /\ [][NextRevive]_vars

(***************************************************************************)
(* SpecLife: the life of a record.  The handlers, direct edits and delete   *)
(* calls of a service whose remote store is healthy run in parallel; every *)
(* store call of each of them is one step.                                 *)
(***************************************************************************)
NextLife ==
  \/ \E event \in DelUploadedEvents : CallHandleUploadedEvent(event, StoreOK)
  \/ \E event \in DelTranscodedEvents :
       CallHandleTranscodedEvent(event, StoreOK)
  \/ UploadedSave
  \/ UploadedCreate
  \/ TranscodedCreate
  \/ TranscodedSave
  \/ \E id \in 1..nextID :
       \E req \in { [NoEdit EXCEPT
                       !.Title = [set |-> TRUE, val |-> "Edited Title"]],
                    [NoEdit EXCEPT
                       !.IsPrivate = [set |-> TRUE, val |-> TRUE]] } :
         CallUpdateVideo(id, req)
  \/ UpdateVideoSave
  \/ \E id \in 1..nextID : DeleteVideo(id)
  \/ DeleteFirst(TRUE)
  \/ DeleteAdmit
  \/ DeleteExists
  \/ DeleteList
  \/ DeleteBlobAttempt
  \/ \E dbOK \in BOOLEAN : DeleteRow(dbOK)

SpecLife == InitLife /\ [][NextLife]_vars

(***************************************************************************)
(* SpecFallback: the service built by NewVideoService when the client of   *)
(* the remote store could not be created: deleteService is nil, and        *)
(* DeleteVideo is the deletion in the relational store alone, one call to  *)
(* the store.  The handlers run in parallel with the delete calls; the     *)
(* relational store may fail the deletion.                                 *)
(***************************************************************************)
\* faulty variant of SoftDelete: the row is left as it is
SoftDeleteOff(tbl, id) == tbl

\* db.Delete(&models.Video{}, id): the live row with the key is marked
\* deleted (DeletedAt is set), and stays in the table
SoftDelete(tbl, id) ==
  {IF r.ID = id /\ ~r.Deleted THEN [r EXCEPT !.Deleted = TRUE] ELSE r :
     r \in tbl}

\* VideoService.DeleteVideo without a delete service
DeleteVideoDBOnly(id, dbOK) ==
  /\ del.pc \in {"idle", "done"}
  /\ ndel < MaxDeletes
  /\ videos' = IF dbOK THEN SoftDelete(videos, id) ELSE videos
  /\ del' = [NoDelete EXCEPT
               !.pc = "done", !.entry = "DeleteVideo", !.id = id,
               !.result = IF dbOK THEN "" ELSE "failed to delete video",
               !.log = <<Entry("db.Delete", <<>>,
                               IF dbOK THEN "" ELSE "store error")>>]
  /\ pdel' = Summary(del)
  /\ ndel' = ndel + 1
  /\ UNCHANGED <<nextID, blobs, remoteUp, flips, breaker, now, ticks,
                 seqVars, concVars, blobCall, payload, other>>

NextFallback ==
  \/ \E event \in EditUploadedEvents : CallHandleUploadedEvent(event, StoreOK)
  \/ \E event \in DelTranscodedEvents :
       CallHandleTranscodedEvent(event, StoreOK)
  \/ UploadedSave
  \/ UploadedCreate
  \/ TranscodedCreate
  \/ TranscodedSave
  \/ \E id \in 1..nextID : \E dbOK \in BOOLEAN : DeleteVideoDBOnly(id, dbOK)

SpecFallback == InitLife /\ [][NextFallback]_vars

(***************************************************************************)
(* SpecTags: the decoding of the tags field by the UnmarshalJSON of the    *)
(* two events.  A payload carries the field as a JSON string, as a JSON    *)
(* list of strings, as null or not at all, or as a value of another type;  *)
(* payload holds a list of tags, the number of spaces put on each side of  *)
(* every tag when the list is written as one comma-delimited string, and   *)
(* what the decoder of the event made of each form.                        *)
(***************************************************************************)
MaxTags == 2

\* strings.TrimSpace; the white space of the model is the space
TrimSpace(s) == Trim(s, {" "})

RECURSIVE TrimAll(_)
TrimAll(items) ==
  IF items = <<>> THEN <<>>
  ELSE <<TrimSpace(Head(items))>> \o TrimAll(Tail(items))

\* the value json.Unmarshal puts into aux.Tags (interface{})
\* (kind "nil" for null and for a payload without the field, "other" for
\* a number, a boolean or an object)
JSONValue(kind, str, items) == [kind |-> kind, str |-> str, items |-> items]

\* UploadedEvent.UnmarshalJSON: the switch on the type of aux.Tags
UploadedEventTags(v) ==
  CASE v.kind = "string" ->
         IF v.str = <<>> THEN <<>> ELSE TrimAll(Split(v.str, ","))
    [] v.kind = "list" -> TrimAll(v.items)
    [] v.kind = "nil" -> <<>>
    [] OTHER -> <<>>

\* TranscodedEvent.UnmarshalJSON: the switch on the type of aux.Tags
TranscodedEventTags(v) ==
  CASE v.kind = "string" ->
         IF v.str = <<>> THEN <<>> ELSE TrimAll(Split(v.str, ","))
    [] v.kind = "list" -> TrimAll(v.items)
    [] v.kind = "nil" -> <<>>
    [] OTHER -> <<>>

TagsOf(event, v) ==
  IF event = "uploaded" THEN UploadedEventTags(v) ELSE TranscodedEventTags(v)

\* every tag with l spaces before it and r spaces after it
RECURSIVE Padded(_, _, _)
Padded(tags, l, r) ==
  IF tags = <<>> THEN <<>>
  ELSE <<[i \in 1..l |-> " "] \o Head(tags) \o [i \in 1..r |-> " "]>>
         \o Padded(Tail(tags), l, r)

\* the decoder reads the field sent as a list
DecodeList ==
  /\ payload.event # ""
  /\ ~payload.listDone
  /\ payload' = [payload EXCEPT
                   !.listDone = TRUE,
                   !.list = TagsOf(payload.event, JSONValue("list", <<>>, payload.tags))]
  /\ UNCHANGED <<videos, nextID, seqVars, concVars, blobs, remoteUp, flips,
                 breaker, now, ticks, del, pdel, ndel, blobCall, other>>

\* the decoder reads the field sent as one string: the tags joined by
\* commas, each with spaces around it
DecodeText ==
  /\ payload.event # ""
  /\ ~payload.textDone
  /\ payload' = [payload EXCEPT
                   !.textDone = TRUE,
                   !.text = TagsOf(payload.event,
                                   JSONValue("string",
                                             Join(Padded(payload.tags,
                                                         payload.left,
                                                         payload.right), ","),
                                             <<>>))]
  /\ UNCHANGED <<videos, nextID, seqVars, concVars, blobs, remoteUp, flips,
                 breaker, now, ticks, del, pdel, ndel, blobCall, other>>

\* the decoder reads a payload without the field, or with null, or with a
\* value that is neither a string nor a list
DecodeAbsent(v) ==
  /\ payload.event # ""
  /\ ~payload.absentDone
  /\ payload' = [payload EXCEPT
                   !.absentDone = TRUE,
                   !.absent = TagsOf(payload.event, v)]
  /\ UNCHANGED <<videos, nextID, seqVars, concVars, blobs, remoteUp, flips,
                 breaker, now, ticks, del, pdel, ndel, blobCall, other>>

\* a payload of either event with up to MaxTags tags: plain, with a space
\* inside or around, with a comma inside, empty
InitTags ==
  /\ videos = {}
  /\ nextID = 1
  /\ steps = 0
  /\ last = NoCall
  /\ prev = NoCall
  /\ queue = [s \in Streams |-> <<>>]
  /\ wk = [p \in Procs |-> Idle]
  /\ sent = <<>>
  /\ acked = {}
  /\ nacked = {}
  /\ blobs = AllBlobs
  /\ remoteUp = TRUE
  /\ flips = 0
  /\ breaker = BreakerClosed
  /\ now = 0
  /\ ticks = 0
  /\ del = NoDelete
  /\ pdel = Summary(NoDelete)
  /\ ndel = 0
  /\ other = NoRequest
  /\ blobCall = NoBlobCall
  /\ payload \in
       {[NoPayload EXCEPT !.event = e, !.tags = t, !.left = l, !.right = r] :
          e \in Streams,
          t \in UNION {[1..n -> {TagA, TagB, TagAB, <<"a", " ", "b">>,
                                  <<" ", "a">>, <<"b", " ">>, <<>>}] :
                         n \in 0..MaxTags},
          l \in 0..1, r \in 0..1}

NextTags ==
  \/ DecodeList
  \/ DecodeText
  \/ \E kind \in {"nil", "other"} : DecodeAbsent(JSONValue(kind, <<>>, <<>>))

SpecTags == InitTags /\ [][NextTags]_vars

(***************************************************************************)
(* SpecBackoff: the retry loop of AzureClientAdapter.DeleteBlob for every  *)
(* retry count CATALOG_AZURE_RETRIES may configure (any n >= 0), one pass  *)
(* of the loop per step; the attempt of a pass succeeds or fails with the  *)
(* error of the remote store or of the open breaker.  blobCall holds the   *)
(* locals of the loop: i, backoff, last, and the waits slept so far.       *)
(***************************************************************************)

\* faulty variant of RetryPass: the wait doubles without a ceiling
RetryPassNoCap(err) ==
  /\ blobCall.pc = "attempt"
  /\ IF err = ""
     THEN blobCall' = [blobCall EXCEPT !.pc = "returned", !.last = ""] /\ now' = now
     ELSE IF blobCall.i < blobCall.retries
     THEN /\ blobCall' = [blobCall EXCEPT
                        !.last = err,
                        !.waits = Append(@, blobCall.backoff),
                        !.backoff = 2 * blobCall.backoff,
                        !.i = blobCall.i + 1]
          /\ now' = now + blobCall.backoff
     ELSE blobCall' = [blobCall EXCEPT !.pc = "returned", !.last = err] /\ now' = now
  /\ UNCHANGED <<videos, nextID, blobs, remoteUp, flips, breaker, ticks, del,
                 pdel, ndel, seqVars, concVars, payload, other>>

\* DeleteBlob: one pass of 'for i := 0; i <= retries; i++' whose attempt
\* ends with err ("" for nil)
RetryPass(err) ==
  /\ blobCall.pc = "attempt"
  /\ IF err = ""
     THEN blobCall' = [blobCall EXCEPT !.pc = "returned", !.last = ""] /\ now' = now
     ELSE IF blobCall.i < blobCall.retries
     THEN /\ blobCall' = [blobCall EXCEPT
                        !.last = err,
                        !.waits = Append(@, blobCall.backoff),
                        !.backoff = IF blobCall.backoff < backoffCap
                                    THEN 2 * blobCall.backoff ELSE blobCall.backoff,
                        !.i = blobCall.i + 1]
          /\ now' = now + blobCall.backoff
     ELSE blobCall' = [blobCall EXCEPT !.pc = "returned", !.last = err] /\ now' = now
  /\ UNCHANGED <<videos, nextID, blobs, remoteUp, flips, breaker, ticks, del,
                 pdel, ndel, seqVars, concVars, payload, other>>

\* a DeleteBlob call starts with any configured retry count
InitBackoff ==
  /\ videos = {}
  /\ nextID = 1
  /\ steps = 0
  /\ last = NoCall
  /\ prev = NoCall
  /\ queue = [s \in Streams |-> <<>>]
  /\ wk = [p \in Procs |-> Idle]
  /\ sent = <<>>
  /\ acked = {}
  /\ nacked = {}
  /\ blobs = AllBlobs
  /\ remoteUp = TRUE
  /\ flips = 0
  /\ breaker = BreakerClosed
  /\ now = 0
  /\ ticks = 0
  /\ del = NoDelete
  /\ pdel = Summary(NoDelete)
  /\ ndel = 0
  /\ other = NoRequest
  /\ blobCall \in {[NoBlobCall EXCEPT !.pc = "attempt", !.retries = n,
                                  !.backoff = backoff] : n \in 0..MaxRetries}
  /\ payload = NoPayload

NextBackoff == \E err \in {"", ErrRemote, ErrOpenState} : RetryPass(err)

SpecBackoff == InitBackoff /\ [][NextBackoff]_vars

(***************************************************************************)
(* SpecFault: the handlers of Spec against a relational store that may     *)
(* fail any single call (connection lost, statement timeout): db tells for *)
(* the lookup, the insert and the update of a handler call whether the     *)
(* store answers it.                                                       *)
(***************************************************************************)
StoreFaults ==
  { StoreOK,
    [StoreOK EXCEPT !.first = FALSE],
    [StoreOK EXCEPT !.create = FALSE],
    [StoreOK EXCEPT !.save = FALSE] }

FaultUploadedEvents == {UploadedBase, UploadedExample}

FaultTranscodedEvents ==
  { TranscodedBase, TranscodedExample,
    [TranscodedBase EXCEPT !.UploadID = ""] }

NextFault ==
  \/ \E event \in FaultUploadedEvents : \E db \in StoreFaults :
       CallHandleUploadedEvent(event, db)
  \/ \E event \in FaultTranscodedEvents : \E db \in StoreFaults :
       CallHandleTranscodedEvent(event, db)
  \/ UploadedSave
  \/ UploadedCreate
  \/ TranscodedCreate
  \/ TranscodedSave

SpecFault == Init /\ [][NextFault]_vars

(***************************************************************************)
(* Properties.                                                             *)
(***************************************************************************)
RowsOf(tbl, uploadID) == {r \in tbl : r.UploadID = uploadID}

\* a call made without the broker returns in this step
IsCall == steps' = steps + 1

\* no caller is between two store calls
Calm == \A p \in Procs : wk[p].pc = "idle"

\* the table as the call that returns in this step found it at its first
\* line
Before ==
  IF last'.op \in Procs /\ wk[last'.op].pc # "idle"
  THEN wk[last'.op].before ELSE videos

\* the tags column of a row without tags
EmptyTags == convertSliceToPostgresArray(<<>>)

HasMetadata(r, m) ==
  /\ r.Duration = m.Duration /\ r.FileSize = m.FileSize /\ r.Width = m.Width
  /\ r.Height = m.Height /\ r.VideoCodec = m.VideoCodec
  /\ r.VideoBitrate = m.VideoBitrate /\ r.AudioCodec = m.AudioCodec
  /\ r.AudioBitrate = m.AudioBitrate /\ r.FrameRate = m.FrameRate

\* the row holds the descriptive fields of registration event R
HasDescriptiveFieldsOf(r, R) ==
  /\ r.UploadID = R.UploadID /\ r.UserID = R.UserID
  /\ r.Username = R.Username
  /\ r.Title = nonEmpty(R.Title, UntitledVideo)
  /\ r.Description = R.Description
  /\ r.Tags = convertSliceToPostgresArray(R.Tags)
  /\ r.IsPrivate = R.IsPrivate
  /\ r.Category = R.Category
  /\ r.OriginalFilename = R.OriginalName
  /\ r.RawVideoPath = R.RawVideoPath

\* finalization event F carries no descriptive field
NoDescriptiveFields(F) ==
  /\ F.Title = "" /\ F.Description = "" /\ F.Tags = <<>> /\ F.Category = ""
  /\ ~F.IsPrivate /\ F.OriginalFilename = "" /\ F.RawVideoPath = ""

Quiescent == \A s \in Streams : queue[s] = <<>> /\ wk[s].pc = "idle"

Answered == acked \cup nacked

\* C1 (SpecConc): in every state reached by any interleaving of the two
\* consume loops over registration and finalization deliveries (duplicates
\* and either order included), no two rows of the catalog carry the same
\* external identifier.
C1_OneRecordPerUploadID ==
  \A r1 \in videos : \A r2 \in videos :
    r1.UploadID = r2.UploadID => r1 = r2

\* C1 witness: a registration and a finalization delivery for the same
\* identifier have both been answered and the catalog holds one row for it.
C1_Witness ==
  \E i \in Answered : \E j \in Answered :
    /\ sent[i].stream = "uploaded" /\ ~sent[i].msg.bad
    /\ sent[j].stream = "transcoded" /\ ~sent[j].msg.bad
    /\ sent[i].msg.event.UploadID = sent[j].msg.event.UploadID
    /\ Cardinality(RowsOf(videos, sent[i].msg.event.UploadID)) = 1

\* C2 (SpecConc), the claim as stated: once one registration delivery and
\* one finalization delivery (no descriptive fields) for the same identifier
\* have both been handled by the two loops, both are acknowledged and the
\* catalog holds exactly one row, ready, with the manifest URL and media
\* metadata of the finalization event and the descriptive fields of the
\* registration event.
C2_RaceConverges ==
  \A i \in 1..Len(sent) : \A j \in 1..Len(sent) :
    ( /\ Len(sent) = 2
      /\ Quiescent
      /\ sent[i].stream = "uploaded" /\ ~sent[i].msg.bad
      /\ sent[j].stream = "transcoded" /\ ~sent[j].msg.bad
      /\ sent[i].msg.event.UploadID = sent[j].msg.event.UploadID
      /\ sent[i].msg.event.UserID = sent[j].msg.event.UserID
      /\ sent[i].msg.event.UploadID # "" /\ sent[i].msg.event.UserID # ""
      /\ NoDescriptiveFields(sent[j].msg.event) )
    => /\ acked = {1, 2}
       /\ nacked = {}
       /\ \E r \in videos :
            /\ videos = {r}
            /\ r.Status = StatusReady
            /\ r.HLSMasterURL = sent[j].msg.event.HLS.MasterURL
            /\ HasMetadata(r, sent[j].msg.event.Metadata)
            /\ HasDescriptiveFieldsOf(r, sent[i].msg.event)

\* C3 (Spec), the claim as stated: when a valid registration event that
\* created the row for its identifier is applied a second time, with no
\* other call in progress during either application, the second call
\* succeeds and leaves the catalog (one row for the identifier) exactly as
\* the first call left it.
C3_ReplayRegistration ==
  [][ ( /\ IsCall
        /\ last.op = "uploaded" /\ last.err = "" /\ ~last.found /\ last.solo
        /\ last'.op = "uploaded" /\ last'.event = last.event /\ last'.solo )
      => /\ last'.err = ""
         /\ videos' = videos
         /\ Cardinality(RowsOf(videos', last.event.UploadID)) = 1 ]_vars

\* C4 (Spec), the claim as stated: applying a finalization event a second
\* time right after the first, with no other call in progress during
\* either application, leaves every row as the first call left it and adds
\* no row.
C4_ReplayFinalization ==
  [][ ( /\ IsCall
        /\ last.op = "transcoded" /\ last.solo
        /\ last'.op = "transcoded" /\ last'.solo
        /\ last'.event = last.event )
      => videos' = videos ]_vars

\* the catalog after finalization event F and then registration event R,
\* starting from the empty catalog
FinalizeThenRegister(F, R) ==
  LET a == HandleTranscodedEvent({}, 1, F)
  IN HandleUploadedEvent(a.videos, a.nextID, R).videos

\* C5 (Spec), the claim as stated: from the empty catalog, registration
\* event R then finalization event F for the same identifier, applied one
\* after the other, end in the same rows as F then R.
C5_Commutes ==
  [][ ( /\ IsCall /\ steps = 1
        /\ last.op = "uploaded" /\ last.err = "" /\ last.solo
        /\ last'.op = "transcoded" /\ last'.solo
        /\ last'.event.UploadID = last.event.UploadID )
      => videos' = FinalizeThenRegister(last'.event, last.event) ]_vars

\* C6 (Spec), the claim as stated: from the empty catalog, after a valid
\* registration event the catalog holds one row, processing, with the
\* descriptive fields of the event (title defaulted to the placeholder);
\* after a following finalization event for the same identifier it holds
\* one row, ready, with the title and tags the registration supplied and
\* the manifest URL and media metadata of the finalization event.  The two
\* events are applied one after the other.
C6_RegisterThenFinalize ==
  /\ (steps = 1 /\ Calm /\ last.op = "uploaded" /\ last.err = "" /\ last.solo)
       => \E r \in videos :
            /\ videos = {r}
            /\ r.Status = StatusProcessing
            /\ HasDescriptiveFieldsOf(r, last.event)
  /\ ( /\ steps = 2 /\ Calm
       /\ prev.op = "uploaded" /\ prev.err = "" /\ prev.solo
       /\ last.op = "transcoded" /\ last.solo
       /\ last.event.UploadID = prev.event.UploadID )
       => /\ last.err = ""
          /\ \E r \in videos :
               /\ videos = {r}
               /\ r.Status = StatusReady
               /\ (prev.event.Title \notin {"", UntitledVideo}
                     => r.Title = prev.event.Title)
               /\ (prev.event.Tags # <<>>
                     => r.Tags = convertSliceToPostgresArray(prev.event.Tags))
               /\ r.HLSMasterURL = last.event.HLS.MasterURL
               /\ HasMetadata(r, last.event.Metadata)

\* C7 (Spec), the claim as stated: a finalization call whose lookup found
\* no row for the identifier of its event returns success and leaves a row
\* for that identifier, titled with the event's title or the placeholder; a
\* registration event for the same identifier applied next, with no other
\* call in progress, succeeds and sets every descriptive field of that row
\* that was still empty (title: still the placeholder) to the value the
\* registration event carries.
C7_PlaceholderThenBackfill ==
  [][ IsCall =>
      /\ (last'.op = "transcoded" /\ ~last'.found)
           => /\ last'.err = ""
              /\ \E r \in videos' :
                   /\ r.UploadID = last'.event.UploadID
                   /\ r.Title = nonEmpty(last'.event.Title, UntitledVideo)
      /\ ( /\ last.op = "transcoded" /\ ~last.found /\ last.err = ""
           /\ last.solo
           /\ last'.op = "uploaded" /\ last'.solo
           /\ last'.event.UploadID = last.event.UploadID
           /\ last'.event.UserID # "" )
           => /\ last'.err = ""
              /\ \A r \in RowsOf(videos, last.event.UploadID) :
                   \E n \in videos' :
                     /\ n.ID = r.ID
                     /\ (r.Username = ""
                           => n.Username = last'.event.Username)
                     /\ (r.Title = UntitledVideo /\ last'.event.Title # ""
                           => n.Title = last'.event.Title)
                     /\ (r.Description = ""
                           => n.Description = last'.event.Description)
                     /\ (r.Tags = EmptyTags
                           => n.Tags = convertSliceToPostgresArray(last'.event.Tags))
                     /\ (r.Category = ""
                           => n.Category = last'.event.Category)
                     /\ (r.OriginalFilename = ""
                           => n.OriginalFilename = last'.event.OriginalName)
                     /\ (r.RawVideoPath = ""
                           => n.RawVideoPath = last'.event.RawVideoPath) ]_vars

\* C8 (SpecConc), the claim as stated: no step of the two consume loops
\* takes a stored row whose status is ready to another status.
C8_ReadyIsFinal ==
  [][ \A r \in videos : r.Status = StatusReady =>
        \A n \in videos' : n.ID = r.ID => n.Status = StatusReady ]_vars

\* C9 (Spec), the claim as stated: no step of a registration or
\* finalization handler turns a private row public; the only change of
\* visibility an event makes is from public to private.
C9_EscalateOnlyVisibility ==
  [][ \A r \in videos :
        r.IsPrivate => \E n \in videos' : n.ID = r.ID /\ n.IsPrivate ]_vars

\* C10 (Spec), the claim as stated: a finalization event applied, with no
\* other call in progress, to a row titled with the placeholder leaves the
\* title unchanged when the event's title is empty and sets it to the
\* event's title otherwise; no step of a registration or finalization
\* handler changes a title that differs from the placeholder.
C10_TitleFillIfEmpty ==
  [][ \A r \in videos :
      /\ ( /\ IsCall /\ last'.op = "transcoded" /\ last'.solo /\ last'.found
           /\ last'.event.UploadID = r.UploadID
           /\ r.Title = UntitledVideo )
           => \E n \in videos' :
                /\ n.ID = r.ID
                /\ n.Title = IF last'.event.Title = "" THEN UntitledVideo
                             ELSE last'.event.Title
      /\ r.Title # UntitledVideo
           => \E n \in videos' : n.ID = r.ID /\ n.Title = r.Title ]_vars

\* C7 for a call made with no other call in progress: a finalization call
\* whose lookup found no row returns success.
PlaceholderSequential ==
  [][ (IsCall /\ last'.solo /\ last'.op = "transcoded" /\ ~last'.found)
      => last'.err = "" ]_vars

\* C9 for a call made with no other call in progress: a row that was
\* private before the call is private after it.
EscalateOnlySequential ==
  [][ (IsCall /\ last'.solo)
      => \A r \in Before :
           r.IsPrivate => \E n \in videos' : n.ID = r.ID /\ n.IsPrivate ]_vars

\* C10 for a call made with no other call in progress: a title that
\* differed from the placeholder before the call is the title after it.
TitleKeptSequential ==
  [][ (IsCall /\ last'.solo)
      => \A r \in Before :
           r.Title # UntitledVideo
             => \E n \in videos' : n.ID = r.ID /\ n.Title = r.Title ]_vars

\* C11 (Spec), the claim as stated: after every finalization call that
\* succeeds with no other call in progress, the row of the event's identifier holds the manifest URL of the
\* event and, in every media-metadata column, the value the event carried
\* (the zero value when the event has no metadata block), whatever the row
\* held before.
C11_AuthoritativeFields ==
  [][ (IsCall /\ last'.op = "transcoded" /\ last'.err = "" /\ last'.solo)
      => \E r \in videos' :
           /\ r.UploadID = last'.event.UploadID
           /\ r.HLSMasterURL = last'.event.HLS.MasterURL
           /\ HasMetadata(r, last'.event.Metadata) ]_vars

\* the calls of a delete call that go to the storage gateway
StorageCalls ==
  {"BlobExists", "DeleteBlob", "NextPage", "deleteFileIfExists",
   "DeleteBlobsWithPrefix"}

\* entry k of the log of the current delete call is the call named, on arg
IsEntry(k, call, arg) == del.log[k].call = call /\ del.log[k].arg = arg

\* the current delete call has returned
Returned == del.pc = "done"

\* the current delete call repeats the call before it on the same key
SameKeyAgain == pdel.pc = "done" /\ del.pc # "idle" /\ del.id = pdel.id

ErrRowDelete == "failed to delete video from database"

\* C12 (SpecDelete): in every delete call the row deletion is the last
\* entry of the call's log, it comes after one attempt (deleteFileIfExists)
\* on every planned individual object and one attempt
\* (DeleteBlobsWithPrefix) on every planned prefix, and while the storage
\* pass is running the row of the call's key is still in the catalog.
C12_RowRemovedLast ==
  LET paths == PathsToDelete(del.video)
      prefixes == PrefixesToDelete(del.video)
  IN /\ \A k \in 1..Len(del.log) :
          del.log[k].call = "db.Delete" =>
            /\ k = Len(del.log)
            /\ \A i \in 1..Len(paths) : \E j \in 1..(k - 1) :
                 IsEntry(j, "deleteFileIfExists", paths[i])
            /\ \A i \in 1..Len(prefixes) : \E j \in 1..(k - 1) :
                 IsEntry(j, "DeleteBlobsWithPrefix", prefixes[i])
     /\ del.pc \in {"exists", "list", "delete", "dbdelete"}
          => \E r \in videos : r.ID = del.id

\* C12 witness: a delete call with two planned objects and two planned
\* prefixes has removed the row after a storage pass in which one attempt
\* failed.
C12_Witness ==
  /\ Returned /\ del.result = ""
  /\ Len(PathsToDelete(del.video)) = 2
  /\ Len(PrefixesToDelete(del.video)) = 2
  /\ del.log[Len(del.log)].call = "db.Delete"
  /\ \E k \in 1..Len(del.log) :
       del.log[k].call = "deleteFileIfExists" /\ del.log[k].err # ""
  /\ \A r \in videos : r.ID # del.id

\* C13 (SpecDelete): when a delete call has returned success for a key, the
\* next delete call with the same key makes no request to the remote store
\* and no call of the storage gateway, leaves the catalog as it is, and
\* returns "video not found" (or the store error of its lookup, when the
\* lookup itself failed).
C13_SecondDeleteNotFound ==
  /\ (SameKeyAgain /\ pdel.result = "")
       => /\ del.remote = 0
          /\ \A k \in 1..Len(del.log) : del.log[k].call = "db.First"
          /\ \A r \in videos : r.ID # del.id
          /\ Returned =>
               \/ del.result = "video not found"
               \/ del.result = "failed to get video"
                    /\ del.log[1].err = "store error"

\* C13 witness: the second delete call with the key of a successful one has
\* returned "video not found" while objects of the asset are still in the
\* container.
C13_Witness ==
  /\ SameKeyAgain /\ pdel.result = ""
  /\ Returned /\ del.result = "video not found"
  /\ blobs # {}

\* C14 (SpecDelete), the claim as stated: when in a delete call the
\* deletion of the thumbnail failed, every delete-by-prefix succeeded and
\* the row deletion did not fail, the row is gone and the result returned
\* is neither the result of full success (nil) nor that of a failed call.
C14_PartialFailureReported ==
  ( /\ Returned
    /\ \E k \in 1..Len(del.log) :
         /\ IsEntry(k, "DeleteBlob", ThumbnailPath(del.video))
         /\ del.log[k].err # ""
    /\ \A k \in 1..Len(del.log) :
         del.log[k].call = "DeleteBlobsWithPrefix" => del.log[k].err = ""
    /\ \E k \in 1..Len(del.log) :
         del.log[k].call = "db.Delete" /\ del.log[k].err = "" )
  => /\ \A r \in videos : r.ID # del.id
     /\ del.result \notin {"", ErrRowDelete, "failed to get video",
                           "video not found"}

\* C15 (SpecDelete): when the row deletion fails, the delete call returns
\* an error and the catalog is as it was, the row of the key included; the
\* next delete call with the same key loads the row again (unless its
\* lookup fails with a store error), and in it every planned object whose
\* existence check answers "absent" and every prefix whose listing answers
\* with no object is passed without error and without a delete request.
C15_RowDeleteFailureRetry ==
  /\ (Returned /\ del.result = ErrRowDelete)
       => /\ del.log[Len(del.log)].call = "db.Delete"
          /\ \E r \in videos : r.ID = del.id /\ AfterFind(r) = del.video
  /\ (SameKeyAgain /\ pdel.result = ErrRowDelete /\ del.pc # "first")
       => /\ del.log[1].err \in {"", "store error"}
          /\ \A k \in 1..Len(del.log) :
               /\ ( /\ del.log[k].call = "BlobExists"
                    /\ del.log[k].err = "" /\ ~del.log[k].exists )
                    => /\ k < Len(del.log)
                       /\ del.log[k + 1] =
                            Entry("deleteFileIfExists", del.log[k].arg, "")
               /\ ( /\ del.log[k].call = "NextPage"
                    /\ del.log[k].err = "" /\ ~del.log[k].exists )
                    => /\ k < Len(del.log)
                       /\ del.log[k + 1] =
                            Entry("DeleteBlobsWithPrefix", del.log[k].arg, "")

\* C15 witness: after a delete call whose row deletion failed, the call was
\* repeated with the same key, passed an object the first call had removed,
\* and returned success.
C15_Witness ==
  /\ SameKeyAgain /\ pdel.result = ErrRowDelete
  /\ Returned /\ del.result = ""
  /\ Len(PathsToDelete(del.video)) = 2
  /\ \E k \in 1..Len(del.log) :
       /\ IsEntry(k, "BlobExists", Chars(del.video.RawVideoPath))
       /\ del.log[k].err = "" /\ ~del.log[k].exists
  /\ \A r \in videos : r.ID # del.id

\* C16 (SpecDelete), the claim as stated: a delete call whose context has a
\* deadline and in which a request of the storage pass found the deadline
\* expired returns an error.
C16_DeadlineFails ==
  ( /\ Returned
    /\ del.ctx.has
    /\ \E k \in 1..Len(del.log) :
         del.log[k].call \in StorageCalls /\ del.log[k].err = ErrContext )
  => del.result # ""

\* the step is the first half of a request of the current delete call: the
\* breaker admits it and the request is in flight
AdmitStep == del.flight = NoRequest /\ del'.flight # NoRequest

\* the step is the return of breaker.Execute to the current delete call
RequestStep ==
  /\ del.pc \in {"exists", "list", "delete"}
  /\ del' # del /\ del'.flight = NoRequest

\* the request that returns in this step was admitted by the breaker
Ran == del.flight # NoRequest

\* the context of the request that returns in this step is done: the
\* deadline of the call has passed, or attemptTimeout has passed since the
\* attempt of DeleteBlob in flight started
Expired ==
  \/ CtxDone(del.ctx, now)
  \/ del.pc = "delete" /\ Ran /\ now >= del.since + attemptTimeout

\* the request of the current delete call succeeds if it reaches the
\* remote store now
RequestOK ==
  /\ ~Expired
  /\ remoteUp
  /\ del.pc = "delete" =>
       (IF del.kind = "file" THEN Head(del.paths) ELSE Head(del.items))
         \in blobs

\* the breaker is open and its cooldown has not elapsed
CoolingDown == breaker.state = "open" /\ ~(breaker.expiry < now)

\* the breaker is open and its cooldown has elapsed
ProbeDue == breaker.state = "open" /\ breaker.expiry < now

\* the request of this step ended with the error of an open breaker
FailedFast ==
  IF Len(del'.log) > Len(del.log)
  THEN del'.log[Len(del.log) + 1].err = ErrOpenState
  ELSE del'.i = del.i + 1

\* C19 (SpecDelete): for every request of a delete call through the one
\* breaker: while the breaker is closed the request is admitted, its
\* success resets the count of consecutive failures, and its failure opens
\* the breaker exactly when it is the cbFailures-th consecutive one; while
\* the breaker is open and cbTimeout has not passed since it opened, the
\* request is not admitted: it fails without reaching the remote store and
\* without changing the breaker; once cbTimeout has passed the request is
\* admitted as the probe of the half-open breaker, its success closes the
\* breaker and its failure opens it for another cbTimeout.  An admitted
\* request goes to the remote store when it is admitted (unless the
\* context of the call is done by then), and no other step of the call
\* makes a request to the remote store.
C19_Breaker ==
  [][ /\ del'.remote > del.remote => AdmitStep
      /\ AdmitStep =>
           /\ ~CoolingDown
           /\ breaker.state = "closed" => breaker' = breaker
           /\ ProbeDue => breaker'.state = "half-open"
           /\ blobs' = blobs
           /\ del'.remote = IF CtxDone(del.ctx, now) THEN del.remote
                            ELSE del.remote + 1
      /\ RequestStep =>
           /\ del'.remote = del.remote
           /\ Ran => breaker.state \in {"closed", "half-open"}
           /\ (Ran /\ breaker.state = "closed" /\ RequestOK) =>
                breaker'.state = "closed" /\ breaker'.fails = 0
           /\ (Ran /\ breaker.state = "closed" /\ ~RequestOK) =>
                IF breaker.fails + 1 = cbFailures
                THEN /\ breaker'.state = "open"
                     /\ breaker'.expiry = now + cbTimeout
                ELSE /\ breaker'.state = "closed"
                     /\ breaker'.fails = breaker.fails + 1
                     /\ breaker'.fails < cbFailures
           /\ (Ran /\ breaker.state = "half-open") =>
                /\ RequestOK =>
                     breaker'.state = "closed" /\ breaker'.fails = 0
                /\ ~RequestOK =>
                     /\ breaker'.state = "open"
                     /\ breaker'.expiry = now + cbTimeout
           /\ ~Ran =>
                /\ CoolingDown
                /\ breaker' = breaker
                /\ blobs' = blobs
                /\ del'.remote = del.remote
                /\ FailedFast
    ]_vars

\* C19 witness: in one delete call a request failed fast on the open
\* breaker, and a later request, made after the cooldown, reached the
\* remote store, succeeded and closed the breaker.
C19_Witness ==
  /\ breaker.state = "closed" /\ breaker.fails = 0 /\ breaker.gen = 3
  /\ now > cbTimeout
  /\ \E k \in 1..Len(del.log) : \E j \in 1..Len(del.log) :
       /\ k < j
       /\ del.log[k].err = ErrOpenState
       /\ del.log[j].call \in {"BlobExists", "NextPage", "DeleteBlob"}
       /\ del.log[j].err = ""

\* C17 (Spec): a registration call with an empty external identifier or an
\* empty owner identifier returns an error before its first store call (it
\* is one step, whatever the other callers are doing) and leaves the table
\* and its key sequence as they were.
C17_InvalidRegistration ==
  [][ ( /\ IsCall /\ last'.op = "uploaded"
        /\ (last'.event.UploadID = "" \/ last'.event.UserID = "") )
      => /\ last'.err = "invalid uploaded event"
         /\ wk["uploaded"].pc = "idle"
         /\ videos' = videos
         /\ nextID' = nextID ]_vars

\* C17 witness: a registration event with an empty identifier was refused
\* while the catalog holds a row, and the catalog holds no row with an
\* empty identifier.
C17_Witness ==
  /\ last.op = "uploaded" /\ last.err = "invalid uploaded event"
  /\ last.event.UploadID = "" \/ last.event.UserID = ""
  /\ videos # {}
  /\ \A r \in videos : r.UploadID # "" /\ r.UserID # ""

\* every delivery published is waiting in the queue of its stream, or held
\* by the loop of its stream, or answered, and only one of the three
OneOfThree(q, w, a, n) ==
  \A i \in 1..Len(sent) :
    LET s == sent[i].stream
        waiting == \E k \in 1..Len(q[s]) : q[s][k].tag = i
        held == w[s].pc # "idle" /\ w[s].msg.tag = i
    IN /\ waiting \/ held \/ i \in a \cup n
       /\ ~(waiting /\ held)
       /\ ~(waiting /\ i \in a \cup n)
       /\ ~(held /\ i \in a \cup n)
       /\ ~(i \in a /\ i \in n)

\* C18 (SpecConc): every delivery a loop has taken is answered once, by
\* Ack or by Nack, in the step that follows the return of its handler
\* (position "reply") and before the loop takes the next delivery of its
\* stream; the answer is Nack, with the delivery not put back on the queue,
\* when the payload did not decode or the handler returned an error, and
\* Ack otherwise; a loop takes a delivery only when it holds none.
C18_AckOrNackOnce ==
  [][ /\ OneOfThree(queue', wk', acked', nacked')
      /\ \A s \in Streams :
           /\ (wk[s].pc = "reply" /\ wk'[s].pc # "reply") =>
                LET t == wk[s].msg.tag
                IN /\ t \notin acked \cup nacked
                   /\ wk[s].msg.bad => wk[s].err # ""
                   /\ IF wk[s].err # ""
                      THEN nacked' = nacked \cup {t} /\ acked' = acked
                      ELSE acked' = acked \cup {t} /\ nacked' = nacked
                   /\ queue' = queue
                   /\ wk'[s].pc = "idle"
           /\ (wk[s].pc # "idle" /\ wk'[s].pc # "idle") =>
                wk'[s].msg = wk[s].msg
           /\ (wk[s].pc = "idle" /\ wk'[s].pc # "idle") =>
                /\ queue[s] # <<>>
                /\ wk'[s].msg = Head(queue[s])
                /\ queue'[s] = Tail(queue[s])
      /\ (acked' # acked \/ nacked' # nacked) =>
           \E s \in Streams : wk[s].pc = "reply" /\ wk'[s].pc = "idle"
    ]_vars

\* C18 witness: a delivery that did not decode and a delivery whose handler
\* returned an error have been rejected, a third has been acknowledged, and
\* nothing is waiting.
C18_Witness ==
  /\ Quiescent
  /\ \E i \in nacked : sent[i].msg.bad
  /\ \E i \in nacked : ~sent[i].msg.bad
  /\ acked # {}

\* the row of the edit keeps, in the table tbl, every descriptive field the
\* edit set to a non-empty value (title: other than the placeholder)
EditKept(e, tbl) ==
  \E r \in tbl :
    /\ r.ID = e.id
    /\ (e.req.Title.set /\ e.req.Title.val \notin {"", UntitledVideo})
         => r.Title = e.req.Title.val
    /\ (e.req.Description.set /\ e.req.Description.val # "")
         => r.Description = e.req.Description.val
    /\ (e.req.Tags.set /\ e.req.Tags.val # <<>>)
         => r.Tags = convertSliceToPostgresArray(e.req.Tags.val)
    /\ (e.req.Category.set /\ e.req.Category.val # "")
         => r.Category = e.req.Category.val

\* C20 (SpecEdit), the claim as stated: after a successful direct edit, the
\* first and the second event handled next (registration or finalization,
\* for any identifier, each call made with no other call in progress) leave
\* unchanged every one of title, description,
\* tags and category that the edit set to a non-empty value (title: other
\* than the placeholder).
C20_ManualEditsWin ==
  [][ (IsCall /\ last'.op \in {"uploaded", "transcoded"} /\ last'.solo)
      => /\ (last.op = "edit" /\ last.err = "" /\ last.solo)
              => EditKept(last.event, videos')
         /\ ( /\ prev.op = "edit" /\ prev.err = "" /\ prev.solo
              /\ last.op \in {"uploaded", "transcoded"} /\ last.solo )
              => EditKept(prev.event, videos') ]_vars

\* rows r and q agree on the fields a registration event has no say in
SameFinalizationFields(r, q) ==
  /\ r.ID = q.ID /\ r.UploadID = q.UploadID /\ r.UserID = q.UserID
  /\ r.Status = q.Status
  /\ r.HLSMasterURL = q.HLSMasterURL
  /\ r.ThumbnailURL = q.ThumbnailURL
  /\ r.Duration = q.Duration /\ r.FileSize = q.FileSize
  /\ r.Width = q.Width /\ r.Height = q.Height
  /\ r.VideoCodec = q.VideoCodec /\ r.VideoBitrate = q.VideoBitrate
  /\ r.AudioCodec = q.AudioCodec /\ r.AudioBitrate = q.AudioBitrate
  /\ r.FrameRate = q.FrameRate

\* C21 (SpecConc), the claim as stated: the write HandleUploadedEvent makes
\* to a row it found (db.Save of the patched entity) leaves the status, the
\* manifest URL, the thumbnail URL, the media metadata, the key, the
\* external identifier and the owner of that row as they are in the table.
C21_RegistrationFrame ==
  [][ (wk["uploaded"].pc = "save" /\ wk'["uploaded"].pc = "reply")
      => \A r \in videos :
           r.ID = wk["uploaded"].video.ID
             => \E q \in videos' : SameFinalizationFields(r, q) ]_vars

\* C21 for a call made with no other call in progress (Spec): a
\* registration call that found a row leaves those fields of every row as
\* they were before the call.
RegistrationFrameSequential ==
  [][ (IsCall /\ last'.op = "uploaded" /\ last'.found /\ last'.solo)
      => \A r \in Before : \E q \in videos' : SameFinalizationFields(r, q)
    ]_vars

\* the number of entries of the current call's log that are the call named, on arg
Attempts(call, arg) ==
  Cardinality({k \in 1..Len(del.log) : IsEntry(k, call, arg)})

\* the lookup of the current delete call found the row
Planned == Len(del.log) > 0 /\ del.log[1] = Entry("db.First", <<>>, "")

\* C22 (SpecDelete): a delete call that found its row and has returned has
\* made exactly one attempt (deleteFileIfExists, with one existence check)
\* on every planned object and exactly one DeleteBlobsWithPrefix on every
\* planned prefix, whichever of them failed, has gone on to the row
\* deletion, and returns an error only when the row deletion failed.
C22_StoragePassNeverStops ==
  (Returned /\ Planned)
  => LET paths == PathsToDelete(del.video)
         prefixes == PrefixesToDelete(del.video)
     IN /\ \A i \in 1..Len(paths) :
             /\ Attempts("deleteFileIfExists", paths[i]) = 1
             /\ Attempts("BlobExists", paths[i]) = 1
        /\ \A i \in 1..Len(prefixes) :
             Attempts("DeleteBlobsWithPrefix", prefixes[i]) = 1
        /\ del.log[Len(del.log)].call = "db.Delete"
        /\ del.result # "" =>
             /\ del.result = ErrRowDelete
             /\ del.log[Len(del.log)].err # ""

\* C22 witness: a delete call in which an existence check, the deletion of
\* an object and a delete-by-prefix each failed has attempted the prefix
\* planned last and returned success.
C22_Witness ==
  /\ Returned /\ Planned /\ del.result = ""
  /\ Len(PrefixesToDelete(del.video)) = 2
  /\ \E k \in 1..Len(del.log) :
       /\ del.log[k].call = "deleteFileIfExists"
       /\ del.log[k].err = "failed to check if file exists"
  /\ \E k \in 1..Len(del.log) :
       /\ del.log[k].call = "deleteFileIfExists"
       /\ del.log[k].err = "failed to delete file"
  /\ \E k \in 1..Len(del.log) :
       /\ IsEntry(k, "DeleteBlobsWithPrefix", PrefixesToDelete(del.video)[1])
       /\ del.log[k].err # ""
  /\ Attempts("DeleteBlobsWithPrefix", OtherPrefix(del.video)) = 1

\* C23 (SpecDelete), the claim as stated: when a delete call that found its
\* row has returned, every object that is still in the container under a
\* planned prefix whose listing succeeded has had a DeleteBlob call made
\* for it (an object listed under the prefix is attempted even when the
\* deletion of an earlier one failed).
C23_PrefixDeletionContinues ==
  (Returned /\ Planned)
  => \A k \in 1..Len(del.log) :
       (del.log[k].call = "NextPage" /\ del.log[k].err = "")
       => \A name \in blobs :
            HasPrefix(name, del.log[k].arg)
              => Attempts("DeleteBlob", name) >= 1

\* the number of entries of log that are the call named, on arg
AttemptsIn(log, call, arg) ==
  Cardinality({k \in 1..Len(log) : log[k].call = call /\ log[k].arg = arg})

\* C24 (SpecDelete): for every planned object the existence check comes
\* before any DeleteBlob call for it and changes nothing in the container;
\* when the check answers "absent" the object is passed without error and
\* without a DeleteBlob call; when it answers "present" DeleteBlob is
\* called for the object, once; when the check fails the object is passed
\* with the error of the check and without a DeleteBlob call.
C24_ExistenceCheckFirst ==
  [][ /\ (del.pc = "exists" /\ RequestStep) =>
           LET name == Head(del.paths)
               ok == Ran /\ RequestOK
               n == Len(del.log)
           IN /\ Attempts("DeleteBlob", name) = 0
              /\ blobs' = blobs
              /\ (ok /\ name \in blobs) =>
                   /\ del'.pc = "delete" /\ del'.kind = "file"
                   /\ Head(del'.paths) = name
                   /\ del'.log = Append(del.log,
                        [Entry("BlobExists", name, "") EXCEPT !.exists = TRUE])
              /\ (ok /\ name \notin blobs) =>
                   /\ del'.pc # "delete"
                   /\ del'.log = del.log \o
                        <<Entry("BlobExists", name, ""),
                          Entry("deleteFileIfExists", name, "")>>
              /\ ~ok =>
                   /\ del'.pc # "delete"
                   /\ Len(del'.log) = n + 2
                   /\ del'.log[n + 1].call = "BlobExists"
                   /\ del'.log[n + 1].err # ""
                   /\ del'.log[n + 2] =
                        Entry("deleteFileIfExists", name,
                              "failed to check if file exists")
      /\ \A k \in 1..Len(del'.log) :
           del'.log[k].call = "deleteFileIfExists" =>
             AttemptsIn(del'.log, "DeleteBlob", del'.log[k].arg) =
               IF \E j \in 1..(k - 1) :
                    /\ del'.log[j].call = "BlobExists"
                    /\ del'.log[j].arg = del'.log[k].arg
                    /\ del'.log[j].exists
               THEN 1 ELSE 0
    ]_vars

\* C24 witness: a returned delete call found the raw object present and
\* made one DeleteBlob call for it, which succeeded at its second attempt,
\* and found the thumbnail absent and passed it without error.
C24_Witness ==
  /\ Returned /\ Planned
  /\ \E k \in 1..Len(del.log) :
       /\ IsEntry(k, "DeleteBlob", Chars(del.video.RawVideoPath))
       /\ del.log[k].err = "" /\ del.log[k].attempts = 2
  /\ Attempts("DeleteBlob", Chars(del.video.RawVideoPath)) = 1
  /\ \E k \in 1..Len(del.log) :
       /\ IsEntry(k, "BlobExists", ThumbnailPath(del.video))
       /\ del.log[k].err = "" /\ ~del.log[k].exists
  /\ Attempts("deleteFileIfExists", ThumbnailPath(del.video)) = 1
  /\ Attempts("DeleteBlob", ThumbnailPath(del.video)) = 0

\* C25 (SpecFault), the claim as stated: a handler call that returns an
\* error, made with no other call in progress, leaves the catalog exactly
\* as it was before the call.
C25_FailedCallWritesNothing ==
  [][ (IsCall /\ last'.err # "" /\ last'.solo) => videos' = Before ]_vars

\* C26 (Spec), the claim as stated: a registration call, made with no
\* other call in progress, that finds a row and whose merge changes no field of it (the patched entity equals the
\* loaded one) returns success and writes nothing: the table is as it was.
C26_NoWriteWithoutChange ==
  [][ (IsCall /\ last'.op = "uploaded" /\ last'.found /\ last'.solo)
      => LET q == FirstByUploadID(Before, last'.event.UploadID)
             p == PatchFromUploaded(q.video, last'.event)
         IN p.video = q.video => (last'.err = "" /\ videos' = Before) ]_vars

\* C27 (Spec), the claim as stated: a successful finalization call that
\* found a row, made with no other call in progress, keeps the row's thumbnail URL when it is not empty, and sets
\* it from the event when it is empty.
C27_ThumbnailFillIfEmpty ==
  [][ ( /\ IsCall /\ last'.op = "transcoded" /\ last'.found
        /\ last'.err = "" /\ last'.solo )
      => \A r \in Before :
           (r.UploadID = last'.event.UploadID /\ ~r.Deleted)
           => \E q \in videos' :
                /\ q.ID = r.ID
                /\ q.ThumbnailURL =
                     IF r.ThumbnailURL # "" THEN r.ThumbnailURL
                     ELSE last'.event.ThumbnailURL ]_vars

\* the step is the end of one attempt of the DeleteBlob call in progress
AttemptStep == del.pc = "delete" /\ RequestStep

\* the object of the DeleteBlob call in progress
BlobName == IF del.kind = "file" THEN Head(del.paths) ELSE Head(del.items)

\* the DeleteBlob call in progress returns in this step
BlobReturns == Len(del'.log) > Len(del.log)

\* the error of a request made now that does not succeed
AttemptErr ==
  IF ~Ran THEN ErrOpenState
  ELSE IF Expired THEN ErrContext ELSE ErrRemote

\* C28 (SpecDelete): a DeleteBlob call has made at most retries attempts
\* before any attempt it makes; an attempt that succeeds ends the call with
\* success; a failed attempt is followed by another one of the same call
\* while fewer than retries + 1 have been made; the failure of attempt
\* retries + 1 ends the call with the error of that attempt.
C28_RetryTerminates ==
  [][ AttemptStep =>
      LET ok == Ran /\ RequestOK
          n == Len(del.log)
      IN /\ del.i <= retries
         /\ ok =>
              /\ BlobReturns
              /\ del'.log[n + 1] =
                   [Entry("DeleteBlob", BlobName, "") EXCEPT
                      !.attempts = del.i + 1, !.waits = del.waits]
              /\ blobs' = blobs \ {BlobName}
         /\ (~ok /\ del.i < retries) =>
              /\ ~BlobReturns
              /\ del'.pc = "delete" /\ del'.i = del.i + 1
              /\ del'.kind = del.kind
              /\ del'.paths = del.paths /\ del'.items = del.items
              /\ blobs' = blobs
         /\ (~ok /\ del.i = retries) =>
              /\ BlobReturns
              /\ del'.log[n + 1] =
                   [Entry("DeleteBlob", BlobName, AttemptErr) EXCEPT
                      !.attempts = retries + 1, !.waits = del.waits]
              /\ blobs' = blobs
    ]_vars

\* C28 witness: in one delete call a DeleteBlob call has failed after
\* retries + 1 attempts and another has succeeded at its second attempt.
C28_Witness ==
  /\ \E k \in 1..Len(del.log) :
       /\ del.log[k].call = "DeleteBlob"
       /\ del.log[k].err # "" /\ del.log[k].attempts = retries + 1
  /\ \E k \in 1..Len(del.log) :
       /\ del.log[k].call = "DeleteBlob"
       /\ del.log[k].err = "" /\ del.log[k].attempts = 2

\* C29 (SpecShared): every attempt of a DeleteBlob call goes through the
\* breaker, which other callers of the adapter use at the same time: the
\* breaker admits no attempt while it is open and its cooldown has not
\* elapsed, an attempt reaches the remote store only in the step in which
\* it is admitted (and then unless the context of the call is done), and
\* its outcome is counted by the breaker when the breaker is still in the
\* generation that admitted it; an attempt made while the breaker is open
\* and its cooldown has not elapsed reaches neither the remote store nor
\* the container, leaves the breaker as it is and fails, and when it is the
\* last attempt the call returns the error of the open breaker.
C29_RetriesThroughBreaker ==
  [][ /\ del'.remote > del.remote => (AdmitStep /\ ~CoolingDown)
      /\ (del.pc = "delete" /\ AdmitStep) =>
           /\ ~CoolingDown
           /\ blobs' = blobs
           /\ del'.remote = IF CtxDone(del.ctx, now) THEN del.remote
                            ELSE del.remote + 1
      /\ AttemptStep =>
           LET n == Len(del.log)
               counted == Ran /\ del.flight = <<breaker.gen>>
           IN /\ del'.remote = del.remote
              /\ blobs' # blobs => Ran
              /\ (counted /\ RequestOK) =>
                   breaker'.state = "closed" /\ breaker'.fails = 0
              /\ (counted /\ ~RequestOK) =>
                   \/ /\ breaker'.state = "open"
                      /\ breaker'.expiry = now + cbTimeout
                   \/ /\ breaker.state = "closed" /\ breaker'.state = "closed"
                      /\ breaker'.fails = breaker.fails + 1
              /\ (~Ran /\ CoolingDown) =>
                   /\ del'.remote = del.remote
                   /\ blobs' = blobs
                   /\ breaker' = breaker
                   /\ IF del.i < retries
                      THEN /\ ~BlobReturns
                           /\ del'.pc = "delete" /\ del'.i = del.i + 1
                      ELSE /\ BlobReturns
                           /\ del'.log[n + 1].call = "DeleteBlob"
                           /\ del'.log[n + 1].arg = BlobName
                           /\ del'.log[n + 1].err = ErrOpenState
    ]_vars

\* C29 witness: the first attempt of a DeleteBlob call reached the remote
\* store and failed, the breaker opened, the two attempts left failed on
\* the open breaker without a request, and the call returned its error.
C29_Witness ==
  /\ Len(del.log) >= 3
  /\ del.log[2].call = "BlobExists" /\ del.log[2].exists
  /\ del.log[3].call = "DeleteBlob"
  /\ del.log[3].err = ErrOpenState
  /\ del.log[3].attempts = retries + 1
  /\ del.remote = 2
  /\ CoolingDown

\* C30 (SpecDelete), the claim as stated: a list-page request (of the
\* existence check or of delete-by-prefix) that reached the remote store
\* and failed there does not fail its operation at once: the entry after it
\* is not the failure of the operation it belongs to.
C30_ListPageRetried ==
  \A k \in 1..Len(del.log) :
    ( /\ del.log[k].call \in {"BlobExists", "NextPage"}
      /\ del.log[k].err = ErrRemote )
    => ~( /\ k < Len(del.log)
          /\ del.log[k + 1].call \in {"deleteFileIfExists",
                                      "DeleteBlobsWithPrefix"}
          /\ del.log[k + 1].arg = del.log[k].arg
          /\ del.log[k + 1].err # "" )

\* the arguments, in order, of the entries of log that are the call named
RECURSIVE ArgsOf(_, _)
ArgsOf(log, call) ==
  IF log = <<>> THEN <<>>
  ELSE IF Head(log).call = call
       THEN <<Head(log).arg>> \o ArgsOf(Tail(log), call)
  ELSE ArgsOf(Tail(log), call)

\* the rendition prefix as the plan is described: hls/ plus the two
\* segments after the first segment "hls" of the manifest URL that has two
\* segments after it, and hls/{owner}/{external id} without such a segment
RenditionPrefix(video) ==
  LET seg == Split(Chars(video.HLSMasterURL), "/")
      marks == {i \in 1..Len(seg) : seg[i] = <<"hls">> /\ i + 2 <= Len(seg)}
      first == CHOOSE i \in marks : \A j \in marks : i <= j
  IN IF marks # {}
     THEN <<"hls", "/">> \o seg[first + 1] \o <<"/">> \o seg[first + 2]
     ELSE <<"hls", "/">> \o Chars(video.UserID) \o <<"/">>
            \o Chars(video.UploadID)

\* C31 (SpecDelete), the claim as stated: a delete call that found its row
\* and has returned has attempted, in this order, the raw path (when the
\* row has one) and thumbnails/{owner}/{external id}.jpg as individual
\* objects, and the rendition prefix and videos/{owner}/{external id} as
\* prefixes.
C31_DeletionPlan ==
  (Returned /\ Planned)
  => /\ ArgsOf(del.log, "deleteFileIfExists") =
          (IF del.video.RawVideoPath # ""
           THEN <<Chars(del.video.RawVideoPath)>> ELSE <<>>)
            \o <<(<<"thumbnails", "/">> \o Chars(del.video.UserID) \o <<"/">>
                   \o Chars(del.video.UploadID) \o <<".jpg">>)>>
     /\ ArgsOf(del.log, "DeleteBlobsWithPrefix") =
          <<RenditionPrefix(del.video),
            <<"videos", "/">> \o Chars(del.video.UserID) \o <<"/">>
              \o Chars(del.video.UploadID)>>

\* C31 for rows that have a manifest URL
DeletionPlanWithManifest == del.video.HLSMasterURL # "" => C31_DeletionPlan

\* 2 to the power k
RECURSIVE Pow2(_)
Pow2(k) == IF k = 0 THEN 1 ELSE 2 * Pow2(k - 1)

\* C32 (SpecBackoff): in a DeleteBlob call with any retry count, one wait
\* has been slept per failed attempt that is followed by another attempt
\* and none after the last attempt; the first wait is 200 ms and each
\* further wait is twice the one before it when that one was below 1500 ms
\* and equal to it otherwise, so that wait k is 200 ms doubled k - 1 times
\* while that stays within 1600 ms; the waits never decrease and never
\* exceed 1600 ms.
C32_BackoffSchedule ==
  blobCall.pc # "none" =>
    /\ Len(blobCall.waits) = blobCall.i
    /\ blobCall.i <= blobCall.retries
    /\ \A k \in 1..Len(blobCall.waits) :
         /\ blobCall.waits[k] <= 1600
         /\ k = 1 => blobCall.waits[k] = 200
         /\ k > 1 =>
              /\ blobCall.waits[k] >= blobCall.waits[k - 1]
              /\ blobCall.waits[k] = IF blobCall.waits[k - 1] < 1500
                                 THEN 2 * blobCall.waits[k - 1]
                                 ELSE blobCall.waits[k - 1]
         /\ 200 * Pow2(k - 1) <= 1600 => blobCall.waits[k] = 200 * Pow2(k - 1)

\* C32 witness: a call whose every attempt failed has returned after six
\* waits, the last three at the ceiling.
C32_Witness ==
  /\ blobCall.pc = "returned" /\ blobCall.last # ""
  /\ blobCall.retries = 6
  /\ blobCall.waits = <<200, 400, 800, 1600, 1600, 1600>>

\* C33 (SpecFault), the claim as stated: a finalization call whose event
\* has an empty external identifier, made with no other call in progress,
\* returns an error and leaves the catalog as it was before the call.
C33_InvalidFinalization ==
  [][ ( /\ IsCall /\ last'.op = "transcoded" /\ last'.solo
        /\ last'.event.UploadID = "" )
      => (last'.err # "" /\ videos' = Before) ]_vars

\* C34 (SpecFault), the claim as stated: a finalization call whose lookup
\* fails with a store error, made with no other call in progress, returns
\* an error and writes nothing, neither by an insert nor by an update: the
\* catalog is as it was before the call.
C34_LookupStoreFailure ==
  [][ (IsCall /\ last'.op = "transcoded" /\ ~last'.db.first /\ last'.solo)
      => (last'.err # "" /\ videos' = Before) ]_vars

\* C35 (SpecNeighbour), the claim as stated: a delete call for the record
\* uploaded as u1 removes no object of the record of the same owner
\* uploaded as u10.
C35_NeighbourObjectsKept ==
  [][ (del.pc = "delete" /\ del.video.UploadID = "u1")
      => (blobs \ blobs') \cap NeighbourBlobs = {} ]_vars

\* C36 (SpecRevive), the claim as stated: once a delete call has removed
\* the row of a key and returned success, the save of a handler that
\* loaded that row before the removal leaves the catalog without a row of
\* that key.
C36_NoRevivalBySave ==
  [][ \A s \in Streams :
        ( /\ wk[s].pc = "save"
          /\ wk'[s].pc = "reply"
          /\ del.pc = "done" /\ del.result = ""
          /\ del.video.ID = wk[s].video.ID
          /\ FirstByID(videos, wk[s].video.ID).err # "" )
        => FirstByID(videos', wk[s].video.ID).err # "" ]_vars

\* C37 (Spec): after every finalization call that succeeds, the one live
\* row of the event's identifier has status ready, whether the call found
\* the row or created the placeholder, and whatever status the row had.
C37_FinalizedIsReady ==
  [][ (IsCall /\ last'.op = "transcoded" /\ last'.err = "")
      => /\ RowsOf(videos', last'.event.UploadID) # {}
         /\ \A r \in RowsOf(videos', last'.event.UploadID) :
              r.Status = StatusReady ]_vars

\* C37 witness: a registration created the row with status uploaded, a
\* finalization found it and left it ready; the row still carries the
\* display name of the registration.
C37_Witness ==
  /\ prev.op = "uploaded" /\ ~prev.found /\ prev.err = ""
  /\ last.op = "transcoded" /\ last.found /\ last.err = ""
  /\ last.event.UploadID = prev.event.UploadID
  /\ \E r \in videos :
       /\ r.UploadID = last.event.UploadID
       /\ r.Status = StatusReady
       /\ r.Username = prev.event.Username /\ r.Username # ""

\* the step is the final step of a delete call, and it removes row r
FinalDeleteStepOf(r) ==
  /\ del.pc = "dbdelete" /\ del'.pc = "done" /\ del'.result = ""
  /\ del.video.ID = r.ID

\* C38 (SpecLife): every row of the catalog is still there after every
\* step, with the same key and the same external identifier and not marked
\* deleted, unless the step is the final step of a delete call for that
\* row; registration events, finalization events and direct edits add rows
\* or change other columns only.
C38_RecordsStay ==
  [][ \A r \in videos :
        \/ \E n \in videos' :
             n.ID = r.ID /\ n.UploadID = r.UploadID /\ n.Deleted = r.Deleted
        \/ FinalDeleteStepOf(r) ]_vars

\* C38 witness: a finalization and a direct edit have acted on the record
\* of u1, which kept its key; then a delete call loaded the edited row and
\* its final step removed it.
C38_Witness ==
  /\ prev.op = "transcoded" /\ prev.err = ""
  /\ last.op = "edit" /\ last.err = ""
  /\ del.pc = "done" /\ del.result = ""
  /\ del.video.ID = 1 /\ del.video.UploadID = "u1"
  /\ del.video.Title = "Edited Title"
  /\ del.video.Status = StatusReady
  /\ videos = {}

\* the step is a delete call of the service without a delete service
FallbackDeleteStep == ndel' = ndel + 1

\* C39 (SpecFallback): a delete call of the service without a delete
\* service makes no call of the storage gateway and no request to the
\* remote store, leaves every object in the container and the breaker as
\* they were; when the relational store executes the deletion it returns
\* success, the row of the key is no longer found by key or by identifier
\* (it stays in the table, marked deleted) and every other row is as it
\* was; when the relational store fails, the call returns the error and
\* the catalog is as it was.
C39_DatabaseOnlyDelete ==
  [][ FallbackDeleteStep =>
      /\ blobs' = blobs /\ breaker' = breaker /\ now' = now
      /\ del'.pc = "done" /\ del'.remote = 0
      /\ \A k \in 1..Len(del'.log) : del'.log[k].call \notin StorageCalls
      /\ Len(del'.log) = 1 /\ del'.log[1].call = "db.Delete"
      /\ IF del'.log[1].err = ""
         THEN /\ del'.result = ""
              /\ FirstByID(videos', del'.id).err # ""
              /\ \A r \in videos :
                   IF r.ID = del'.id
                   THEN /\ [r EXCEPT !.Deleted = TRUE] \in videos'
                        /\ FirstByUploadID(videos', r.UploadID).err # ""
                   ELSE r \in videos'
              /\ Cardinality(videos') = Cardinality(videos)
         ELSE del'.result # "" /\ videos' = videos ]_vars

\* C39 witness: the delete call of the service without a delete service
\* has returned success for a finalized record; the row is marked deleted,
\* no lookup finds it, and every object of the asset is in the container.
C39_Witness ==
  /\ del.pc = "done" /\ del.entry = "DeleteVideo" /\ del.result = ""
  /\ del.log = <<Entry("db.Delete", <<>>, "")>>
  /\ \E r \in videos :
       /\ r.ID = del.id /\ r.Deleted
       /\ r.Status = StatusReady /\ r.HLSMasterURL # ""
       /\ r.RawVideoPath # ""
       /\ FirstByUploadID(videos, r.UploadID).err # ""
  /\ FirstByID(videos, del.id).err # ""
  /\ blobs = AllBlobs

\* no tag of the list has a comma in it or is empty once trimmed
PlainTags(tags) ==
  \A i \in 1..Len(tags) :
    /\ \A k \in 1..Len(tags[i]) : tags[i][k] # ","
    /\ TrimSpace(tags[i]) # <<>>

\* the two forms of a list of plain tags decode to the same list, the
\* trimmed tags in their order
PlainTagFormsAgree ==
  (payload.listDone /\ payload.textDone /\ PlainTags(payload.tags))
    => /\ payload.list = payload.text
       /\ payload.list = TrimAll(payload.tags)

\* C40 (SpecTags), the claim as stated: for every list of tags, the decoder
\* of either event makes the same list of the native list and of the
\* string that joins the tags with commas and spaces around them, namely
\* the trimmed tags in their order; a field that is absent, null or empty
\* decodes to the empty list.
C40_TagFormsAgree ==
  /\ (payload.listDone /\ payload.textDone)
       => /\ payload.list = payload.text
          /\ payload.list = TrimAll(payload.tags)
  /\ payload.absentDone => payload.absent = <<>>
  /\ (payload.listDone /\ payload.tags = <<>>) => payload.list = <<>>
  /\ (payload.textDone /\ payload.tags = <<>>) => payload.text = <<>>

====
